---------------------------- MODULE Spec2Model ----------------------------
(***************************************************************************)
(* Model of the Excel QA Validator comparison engine                       *)
(* (backend/app/services/report_comparator.py and                          *)
(* backend/app/models/comparison_models.py).                               *)
(*                                                                         *)
(* Numbers are Python floats in the source.  Here a number is an integer   *)
(* count of units of 10^-FracDigits, so 12.5 is 12.5 * Scale; arithmetic   *)
(* on these is exact.  Text is a sequence of one-character strings, so     *)
(* that strip, endswith, replace and float() can be computed character by  *)
(* character.  Lists whose order follows the iteration order of a Python   *)
(* set are modelled as bags (the order is not determined by the source).   *)
(***************************************************************************)
EXTENDS Integers, Sequences, FiniteSets, Bags, TLC

VARIABLES
    pc,            \* which operation has been applied to the inputs drawn by Init
    source_val,    \* compare_numbers: source_val argument
    dest_val,      \* compare_numbers: dest_val argument
    precision,     \* NumericalComparator.precision / ValidationConfig.precision
    source_num,    \* compare_numbers: local source_num
    dest_num,      \* compare_numbers: local dest_num
    cmp_out,       \* compare_numbers: the returned (is_match, difference)
    severity_thresholds,  \* ValidationConfig.severity_thresholds
    sev_status,    \* determine_severity: comparison_result.status
    sev_difference,\* determine_severity: comparison_result.difference
    sev_out,       \* determine_severity: the returned SeverityLevel
    enable_structure_validation,    \* ValidationConfig.enable_structure_validation
    enable_calculation_validation,  \* ValidationConfig.enable_calculation_validation
    source_data,   \* compare_reports: source_data.sections
    dest_data,     \* compare_reports: dest_data.sections
    comparison_results,       \* compare_reports: the returned comparison_results
    calculation_validations,  \* compare_reports: the returned calculation_validations
    summary,       \* generate_summary: the returned ValidationSummary
    worksheet,     \* the active worksheet: rows of cell values
    raising,       \* parse_excel_file: the section whose processing raises, and where
    sections,      \* detect_sections: the returned mapping, in enumeration order
    parsed,        \* parse_excel_file: the returned ParsedExcelData
    cell_raw,      \* _get_processed_cell_value: the raw cell value
    cell_value,    \* _get_processed_cell_value: the returned value
    row_data,      \* _create_composite_key: the rows it is applied to
    composite_key, \* _create_composite_key: the key returned for each row
    scanned,       \* detect_sections: the number of cells visited, in row-major order
    current_section, \* detect_sections: the section type matched last, "" for None
    request,       \* an endpoint call: the endpoint, its format, the files found
    response       \* the endpoint's response: status code, body, export artifact

cmpVars == <<source_val, dest_val, source_num, dest_num, cmp_out>>

sevVars == <<sev_status, sev_difference, sev_out>>

configVars ==
    <<precision, severity_thresholds, enable_structure_validation,
      enable_calculation_validation>>

reportVars ==
    <<source_data, dest_data, comparison_results, calculation_validations, summary>>

scanVars == <<scanned, current_section>>

parseVars == <<worksheet, raising, sections, parsed, scanVars>>

cellVars == <<cell_raw, cell_value>>

keyVars == <<row_data, composite_key>>

parserVars == <<parseVars, cellVars, keyVars>>

callVars == <<request, response>>

vars == <<pc, configVars, cmpVars, sevVars, reportVars, parserVars, callVars>>

-----------------------------------------------------------------------------
(* Bounds of the model *)

\* longest text drawn exhaustively over Alphabet
MaxLen == 2

\* most records in one document of the structural input family
MaxRecs == 2
MaxRows == 3

\* decimal places a number carries
FracDigits == 3

-----------------------------------------------------------------------------
(* Values: None | float | str *)

RECURSIVE Pow10(_)
Pow10(k) == IF k = 0 THEN 1 ELSE 10 * Pow10(k - 1)

Scale == Pow10(FracDigits)

NoneVal == [t |-> "none", n |-> 0, s |-> <<>>]
NumVal(n) == [t |-> "num", n |-> n, s |-> <<>>]
IntVal(k) == [t |-> "int", n |-> k, s |-> <<>>]
StrVal(s) == [t |-> "str", n |-> 0, s |-> s]
\* float('nan'): a float that compares false with every number
NaN == [t |-> "nan", n |-> 0, s |-> <<>>]

Abs(x) == IF x < 0 THEN -x ELSE x

DigitSeq == <<"0", "1", "2", "3", "4", "5", "6", "7", "8", "9">>
Digits == {DigitSeq[i] : i \in 1..10}
DigitVal(c) == (CHOOSE i \in 1..10 : DigitSeq[i] = c) - 1

(* str.strip(): whitespace removed at both ends *)
RECURSIVE LStrip(_)
LStrip(s) == IF s # <<>> /\ Head(s) = " " THEN LStrip(Tail(s)) ELSE s

RECURSIVE RStrip(_)
RStrip(s) ==
    IF s # <<>> /\ s[Len(s)] = " " THEN RStrip(SubSeq(s, 1, Len(s) - 1)) ELSE s

Strip(s) == RStrip(LStrip(s))

(* str.replace(',', '') *)
RemoveCommas(s) == SelectSeq(s, LAMBDA c : c # ",")

StartsWith(s, c) == s # <<>> /\ Head(s) = c
EndsWith(s, c) == s # <<>> /\ s[Len(s)] = c

(* value of a run of decimal digits *)
RECURSIVE DigitsToInt(_)
DigitsToInt(ds) ==
    IF ds = <<>> THEN 0
    ELSE 10 * DigitsToInt(SubSeq(ds, 1, Len(ds) - 1)) + DigitVal(ds[Len(ds)])

AllDigits(ds) == \A i \in 1..Len(ds) : ds[i] \in Digits

DotAt(body) ==
    IF \E i \in 1..Len(body) : body[i] = "."
    THEN CHOOSE i \in 1..Len(body) :
            body[i] = "." /\ \A j \in 1..(i - 1) : body[j] # "."
    ELSE 0

(* units of 1/Scale that the digits after the point stand for; digits      *)
(* beyond FracDigits are cut off (no input of the model has any)           *)
FracUnits(fp, kept) ==
    DigitsToInt(SubSeq(fp, 1, kept)) * Pow10(FracDigits - kept)

(* float() of the digits before and after the decimal point *)
DecimalValue(ip, fp) ==
    IF AllDigits(ip) /\ AllDigits(fp) /\ Len(ip) + Len(fp) > 0
    THEN NumVal(DigitsToInt(ip) * Scale
                + FracUnits(fp, IF Len(fp) < FracDigits THEN Len(fp) ELSE FracDigits))
    ELSE NoneVal

ParseParts(body, dot) ==
    DecimalValue(IF dot = 0 THEN body ELSE SubSeq(body, 1, dot - 1),
                 IF dot = 0 THEN <<>> ELSE SubSeq(body, dot + 1, Len(body)))

ParseUnsigned(body) == ParseParts(body, DotAt(body))

WithSign(negative, v) == IF negative /\ v.t = "num" THEN NumVal(-v.n) ELSE v

ParseSigned(st) ==
    WithSign(StartsWith(st, "-"),
             ParseUnsigned(IF StartsWith(st, "-") \/ StartsWith(st, "+")
                           THEN Tail(st) ELSE st))

(* float(text): surrounding whitespace is ignored; an optional sign, then   *)
(* digits with at most one decimal point and at least one digit.  Anything *)
(* else raises ValueError, returned here as NoneVal.  Exponents,           *)
(* underscores, inf and nan need characters outside Alphabet.              *)
ParseFloat(text) == ParseSigned(Strip(text))

(* decimal digits of a natural number, "0" for zero *)
RECURSIVE NatDigits(_)
NatDigits(k) ==
    IF k < 10 THEN <<DigitSeq[k + 1]>>
    ELSE Append(NatDigits(k \div 10), DigitSeq[(k % 10) + 1])

RECURSIVE FracDigitsOf(_, _)
FracDigitsOf(f, width) ==
    IF f = 0 \/ width = 0 THEN <<>>
    ELSE <<DigitSeq[(f \div Pow10(width - 1)) + 1]>>
         \o FracDigitsOf(f % Pow10(width - 1), width - 1)

(* str(float) / f"{float}": positional notation with at least one digit    *)
(* after the point (1000.0, 12.5, -0.25).                                  *)
FloatStr(n) ==
    LET m == Abs(n)
        fd == FracDigitsOf(m % Scale, FracDigits)
    IN  (IF n < 0 THEN <<"-">> ELSE <<>>)
        \o NatDigits(m \div Scale) \o <<".">>
        \o (IF fd = <<>> THEN <<"0">> ELSE fd)

(* str(value) *)
PyStr(v) ==
    CASE v.t = "none" -> <<"N", "o", "n", "e">>
      [] v.t = "num" -> FloatStr(v.n)
      [] v.t = "nan" -> <<"n", "a", "n">>
      [] v.t = "int" -> (IF v.n < 0 THEN <<"-">> ELSE <<>>) \o NatDigits(Abs(v.n))
      [] OTHER -> v.s

-----------------------------------------------------------------------------
(* NumericalComparator *)

(* -float(...) kept positive *)
NegateNumKeepsSign(v) == v

(* -float(...): the negated number, None when float() raised *)
NegateNum(v) == IF v.t = "num" THEN NumVal(-v.n) ELSE NoneVal

(* _to_number on a str: raw is the value, st is value.strip() *)
ToNumberText(raw, st) ==
    IF EndsWith(st, "%") THEN ParseFloat(SubSeq(st, 1, Len(st) - 1))
    ELSE IF StartsWith(st, "(") /\ EndsWith(st, ")")
         THEN NegateNum(ParseFloat(RemoveCommas(SubSeq(st, 2, Len(st) - 1))))
         ELSE ParseFloat(RemoveCommas(raw))

ToNumber(value) ==
    IF value.t = "none" THEN NoneVal
    ELSE IF value.t = "num" THEN NumVal(value.n)
    ELSE IF value.t = "nan" THEN NaN
    ELSE IF value.t = "int" THEN NumVal(value.n * Scale)
    ELSE ToNumberText(value.s, Strip(value.s))

(* a comparison with a strict tolerance test *)
CompareCoercedStrict(sv, dv, s_num, d_num, prec) ==
    IF s_num.t = "none" \/ d_num.t = "none"
    THEN [is_match |-> PyStr(sv) = PyStr(dv), difference |-> NoneVal]
    ELSE [is_match |-> Abs(s_num.n - d_num.n) < prec,
          difference |-> NumVal(s_num.n - d_num.n)]

(* a comparison whose fallback reports a mismatch without comparing text *)
CompareCoercedNoFallback(sv, dv, s_num, d_num, prec) ==
    IF s_num.t = "none" \/ d_num.t = "none"
    THEN [is_match |-> FALSE, difference |-> NoneVal]
    ELSE [is_match |-> Abs(s_num.n - d_num.n) <= prec,
          difference |-> NumVal(s_num.n - d_num.n)]

(* a comparison that returns destination minus source *)
CompareCoercedReversed(sv, dv, s_num, d_num, prec) ==
    IF s_num.t = "none" \/ d_num.t = "none"
    THEN [is_match |-> PyStr(sv) = PyStr(dv), difference |-> NoneVal]
    ELSE [is_match |-> Abs(s_num.n - d_num.n) <= prec,
          difference |-> NumVal(d_num.n - s_num.n)]

(* compare_numbers once both sides are coerced: s_num and d_num are the    *)
(* locals source_num and dest_num                                          *)
CompareCoerced(sv, dv, s_num, d_num, prec) ==
    IF s_num.t = "none" \/ d_num.t = "none"
    THEN [is_match |-> PyStr(sv) = PyStr(dv), difference |-> NoneVal]
    ELSE IF s_num.t = "nan" \/ d_num.t = "nan"
    THEN [is_match |-> FALSE, difference |-> NaN]
    ELSE [is_match |-> Abs(s_num.n - d_num.n) <= prec,
          difference |-> NumVal(s_num.n - d_num.n)]

CompareNumbers(sv, dv, prec) ==
    CompareCoerced(sv, dv, ToNumber(sv), ToNumber(dv), prec)

-----------------------------------------------------------------------------
(* ValidationStatus, SeverityLevel, ValidationConfig, determine_severity *)

ValidationStatus ==
    {"MATCH", "MISMATCH", "MISSING_IN_SOURCE", "MISSING_IN_DEST",
     "CALCULATION_ERROR", "STRUCTURAL_ERROR"}

SeverityLevel == {"CRITICAL", "HIGH", "MEDIUM", "LOW"}

\* ValidationConfig.severity_thresholds defaults: 1000.0 and 1.0
DefaultThresholds ==
    [high_value_threshold |-> 1000 * Scale, medium_percentage_error |-> Scale]

(* isinstance(value, (int, float)) *)
IsIntOrFloat(v) == v.t \in {"num", "int", "nan"}

(* abs(difference), in units of 1/Scale *)
AbsUnits(v) == IF v.t = "int" THEN Abs(v.n) * Scale ELSE Abs(v.n)

(* abs(difference) > threshold, false for nan *)
AbsExceeds(v, threshold) == v.t # "nan" /\ AbsUnits(v) > threshold

(* a severity rule whose threshold tests include the threshold itself *)
DetermineSeverityInclusive(status, difference, thresholds) ==
    IF status = "CALCULATION_ERROR" THEN "CRITICAL"
    ELSE IF status \in {"MISSING_IN_SOURCE", "MISSING_IN_DEST"} THEN "HIGH"
    ELSE IF status = "MISMATCH"
         THEN IF IsIntOrFloat(difference)
              THEN IF AbsUnits(difference) >= thresholds.high_value_threshold
                   THEN "CRITICAL"
                   ELSE IF AbsUnits(difference) >= thresholds.medium_percentage_error
                        THEN "HIGH"
                        ELSE "MEDIUM"
              ELSE "MEDIUM"
         ELSE "LOW"

DetermineSeverity(status, difference, thresholds) ==
    IF status = "CALCULATION_ERROR" THEN "CRITICAL"
    ELSE IF status \in {"MISSING_IN_SOURCE", "MISSING_IN_DEST"} THEN "HIGH"
    ELSE IF status = "MISMATCH"
         THEN IF IsIntOrFloat(difference)
              THEN IF AbsExceeds(difference, thresholds.high_value_threshold)
                   THEN "CRITICAL"
                   ELSE IF AbsExceeds(difference, thresholds.medium_percentage_error)
                        THEN "HIGH"
                        ELSE "MEDIUM"
              ELSE "MEDIUM"
         ELSE "LOW"

-----------------------------------------------------------------------------
(* Records, sections and results *)

(* sum of the bags paired with the members of a set *)
RECURSIVE SumBags(_)
SumBags(P) ==
    IF P = {} THEN EmptyBag
    ELSE LET p == CHOOSE q \in P : TRUE
         IN  p[2] (+) SumBags(P \ {p})

(* number of members of a bag that satisfy Test *)
CountIn(B, Test(_)) ==
    BagCardinality([e \in {x \in BagToSet(B) : Test(x)} |-> CopiesIn(e, B)])

(* dict.get(field): None when the field is absent *)
Get(record, field) == IF field \in DOMAIN record THEN record[field] ELSE NoneVal

EXISTS == StrVal(<<"E", "X", "I", "S", "T", "S">>)
MISSING == StrVal(<<"M", "I", "S", "S", "I", "N", "G">>)

(* ComparisonResult; notes is <<>> for None *)
ComparisonResult(key, section, field, source_value, dest_value, status, severity, difference, notes) ==
    [key |-> key, section |-> section, field |-> field,
     source_value |-> source_value, dest_value |-> dest_value,
     status |-> status, severity |-> severity, difference |-> difference,
     notes |-> notes]

-----------------------------------------------------------------------------
(* StructuralValidator *)

(* a validator that rates a section missing in the destination HIGH *)
ValidateSectionsAllHigh(source, dest) ==
    LET missing_in_dest == DOMAIN source \ DOMAIN dest
        missing_in_source == DOMAIN dest \ DOMAIN source
    IN  SumBags({<<section, SetToBag({ComparisonResult(
                    "SECTION_" \o section, "STRUCTURAL", "ENTIRE_SECTION",
                    EXISTS, MISSING, "MISSING_IN_DEST", "HIGH", NoneVal,
                    <<"Section '" \o section
                      \o "' exists in source but missing in destination">>)})>>
                 : section \in missing_in_dest})
        (+)
        SumBags({<<section, SetToBag({ComparisonResult(
                    "SECTION_" \o section, "STRUCTURAL", "ENTIRE_SECTION",
                    MISSING, EXISTS, "MISSING_IN_SOURCE", "HIGH", NoneVal,
                    <<"Section '" \o section
                      \o "' exists in destination but missing in source">>)})>>
                 : section \in missing_in_source})

ValidateSections(source, dest) ==
    LET missing_in_dest == DOMAIN source \ DOMAIN dest
        missing_in_source == DOMAIN dest \ DOMAIN source
    IN  SumBags({<<section, SetToBag({ComparisonResult(
                    "SECTION_" \o section, "STRUCTURAL", "ENTIRE_SECTION",
                    EXISTS, MISSING, "MISSING_IN_DEST", "CRITICAL", NoneVal,
                    <<"Section '" \o section
                      \o "' exists in source but missing in destination">>)})>>
                 : section \in missing_in_dest})
        (+)
        SumBags({<<section, SetToBag({ComparisonResult(
                    "SECTION_" \o section, "STRUCTURAL", "ENTIRE_SECTION",
                    MISSING, EXISTS, "MISSING_IN_SOURCE", "HIGH", NoneVal,
                    <<"Section '" \o section
                      \o "' exists in destination but missing in source">>)})>>
                 : section \in missing_in_source})

(* a validator that reports the count difference destination minus source *)
ValidateRecordCountsReversed(source, dest) ==
    LET common_sections == DOMAIN source \cap DOMAIN dest
        CountResult(section) ==
            LET source_count == Len(source[section])
                dest_count == Len(dest[section])
            IN  IF source_count # dest_count
                THEN SetToBag({ComparisonResult(
                        "COUNT_" \o section, section, "RECORD_COUNT",
                        IntVal(source_count), IntVal(dest_count), "MISMATCH",
                        "HIGH", IntVal(dest_count - source_count),
                        <<"Record count mismatch in section '" \o section \o "'">>)})
                ELSE EmptyBag
    IN  SumBags({<<section, CountResult(section)>> : section \in common_sections})

ValidateRecordCounts(source, dest) ==
    LET common_sections == DOMAIN source \cap DOMAIN dest
        CountResult(section) ==
            LET source_count == Len(source[section])
                dest_count == Len(dest[section])
            IN  IF source_count # dest_count
                THEN SetToBag({ComparisonResult(
                        "COUNT_" \o section, section, "RECORD_COUNT",
                        IntVal(source_count), IntVal(dest_count), "MISMATCH",
                        "HIGH", IntVal(source_count - dest_count),
                        <<"Record count mismatch in section '" \o section \o "'">>)})
                ELSE EmptyBag
    IN  SumBags({<<section, CountResult(section)>> : section \in common_sections})

-----------------------------------------------------------------------------
(* CalculationValidator *)

SummableFields ==
    <<"WK Slab", "Day Sale", "Day Slab", "Day Stale",
      "WTD Slab", "WTD Sale", "WTD Stale", "Wk Sale LY">>

(* the total section names tried in the opposite order *)
TotalSectionNamesReversed == <<"TOTAL", "CENTRAL", "COMBINED">>

TotalSectionNames == <<"COMBINED", "CENTRAL", "TOTAL">>

(* a sum that takes one record only *)
SumOverOne(S, f) == IF S = {} THEN 0 ELSE f[CHOOSE y \in S : TRUE]

RECURSIVE SumOver(_, _)
SumOver(S, f) ==
    IF S = {} THEN 0
    ELSE LET x == CHOOSE y \in S : TRUE
         IN  f[x] + SumOver(S \ {x}, f)

(* d / e by integer division *)
RatioWhole(d, e, k) == (d \div e) * Pow10(k)

(* d / e with k decimal places, cut off, by long division *)
RECURSIVE Ratio(_, _, _)
Ratio(d, e, k) ==
    IF k = 0 THEN d \div e
    ELSE (d \div e) * Pow10(k) + Ratio((d % e) * 10, e, k - 1)

(* validate_totals reads dest_data only.  percentage_error is in units of  *)
(* 1/Scale of a percent, cut off at that resolution; formula_used names    *)
(* the set of summed sections.                                             *)
ValidateTotals(dest_sections, prec) ==
    LET present == {i \in 1..Len(TotalSectionNames) :
                       TotalSectionNames[i] \in DOMAIN dest_sections}
        individual_sections ==
            {s \in DOMAIN dest_sections :
                \A i \in 1..Len(TotalSectionNames) : s # TotalSectionNames[i]}
    IN  IF present = {} THEN <<>>
        ELSE IF individual_sections = {} THEN <<>>
        ELSE
        LET total_section ==
                TotalSectionNames[CHOOSE i \in present : \A j \in present : i <= j]
            total_records == dest_sections[total_section]
        IN  IF total_records = <<>> THEN <<>>
            ELSE
            LET total_record == total_records[1]
                Cells == UNION {{<<s, i>> : i \in 1..Len(dest_sections[s])}
                                   : s \in individual_sections}
                Summed(field) ==
                    {c \in Cells :
                        LET record == dest_sections[c[1]][c[2]]
                        IN  /\ field \in DOMAIN record
                            /\ record[field] # NoneVal
                            /\ ToNumber(record[field]) # NoneVal}
                field_found(field) == Summed(field) # {}
                expected_total(field) ==
                    SumOver(Summed(field),
                            [c \in Summed(field) |->
                                ToNumber(dest_sections[c[1]][c[2]][field]).n])
                HasActual(field) ==
                    /\ field \in DOMAIN total_record
                    /\ total_record[field] # NoneVal
                    /\ ToNumber(total_record[field]) # NoneVal
                Validated ==
                    SelectSeq(SummableFields,
                              LAMBDA field : field_found(field) /\ HasActual(field))
                Validation(field) ==
                    LET expected == expected_total(field)
                        actual_total == ToNumber(total_record[field]).n
                        difference == expected - actual_total
                    IN  [field |-> field,
                         expected_value |-> expected,
                         actual_value |-> actual_total,
                         difference |-> difference,
                         percentage_error |->
                            IF expected # 0
                            THEN Ratio(Abs(difference), Abs(expected), FracDigits + 2)
                            ELSE 0,
                         status |-> IF Abs(difference) > prec
                                    THEN "CALCULATION_ERROR" ELSE "MATCH",
                         formula_used |-> individual_sections]
            IN  [i \in 1..Len(Validated) |-> Validation(Validated[i])]

-----------------------------------------------------------------------------
(* ReportComparator *)

(* a field result that also lists the matching fields *)
FieldListed(key, section, field, source_value, dest_value, c, thresholds) ==
    SetToBag({ComparisonResult(
        key, section, field, source_value, dest_value,
        IF c.is_match THEN "MATCH" ELSE "MISMATCH",
        IF c.is_match THEN "LOW"
        ELSE DetermineSeverity("MISMATCH", c.difference, thresholds),
        c.difference, <<>>)})

(* the result appended for one field, given what compare_numbers returned; *)
(* severity is set by determine_severity on the MISMATCH result            *)
FieldMismatch(key, section, field, source_value, dest_value, c, thresholds) ==
    IF ~c.is_match
    THEN SetToBag({ComparisonResult(
            key, section, field, source_value, dest_value, "MISMATCH",
            DetermineSeverity("MISMATCH", c.difference, thresholds),
            c.difference, <<>>)})
    ELSE EmptyBag

(* the body of the field loop of _compare_records *)
FieldResult(source_value, dest_value, key, section, field, prec, thresholds) ==
    FieldMismatch(key, section, field, source_value, dest_value,
                  CompareNumbers(source_value, dest_value, prec), thresholds)

CompareRecords(source_record, dest_record, key, section, prec, thresholds) ==
    SumBags({<<field, FieldResult(Get(source_record, field), Get(dest_record, field),
                                  key, section, field, prec, thresholds)>>
             : field \in (DOMAIN source_record \cup DOMAIN dest_record)
                          \ {"composite_key"}})

(* record.get('composite_key', f"row_{i}") for the record at list index i *)
KeyAt(section_records, i) ==
    IF "composite_key" \in DOMAIN section_records[i]
    THEN section_records[i]["composite_key"]
    ELSE "row_" \o ToString(i - 1)

(* a lookup in which the first record of a key stays *)
LookupFirst(section_records) ==
    [k \in {KeyAt(section_records, i) : i \in 1..Len(section_records)} |->
        section_records[CHOOSE i \in 1..Len(section_records) :
            /\ KeyAt(section_records, i) = k
            /\ \A j \in 1..Len(section_records) :
                  KeyAt(section_records, j) = k => i <= j]]

(* the dict comprehension: a later record replaces an earlier one of the same key *)
Lookup(section_records) ==
    [k \in {KeyAt(section_records, i) : i \in 1..Len(section_records)} |->
        section_records[CHOOSE i \in 1..Len(section_records) :
            /\ KeyAt(section_records, i) = k
            /\ \A j \in 1..Len(section_records) :
                  KeyAt(section_records, j) = k => j <= i]]

MissingInSource(key, section_name) ==
    ComparisonResult(key, section_name, "ENTIRE_RECORD", MISSING, EXISTS,
                     "MISSING_IN_SOURCE", "HIGH", NoneVal,
                     <<"Record exists in destination but missing in source">>)

MissingInDest(key, section_name) ==
    ComparisonResult(key, section_name, "ENTIRE_RECORD", EXISTS, MISSING,
                     "MISSING_IN_DEST", "HIGH", NoneVal,
                     <<"Record exists in source but missing in destination">>)

(* a section comparison with the two one-sided cases exchanged *)
CompareSectionSidesExchanged(source_section, dest_section, section_name, prec, thresholds) ==
    LET source_lookup == Lookup(source_section)
        dest_lookup == Lookup(dest_section)
        all_keys == DOMAIN source_lookup \cup DOMAIN dest_lookup
        KeyResults(key) ==
            IF key \notin DOMAIN source_lookup
            THEN SetToBag({MissingInDest(key, section_name)})
            ELSE IF key \notin DOMAIN dest_lookup
            THEN SetToBag({MissingInSource(key, section_name)})
            ELSE CompareRecords(source_lookup[key], dest_lookup[key], key,
                                section_name, prec, thresholds)
    IN  SumBags({<<key, KeyResults(key)>> : key \in all_keys})

CompareSection(source_section, dest_section, section_name, prec, thresholds) ==
    LET source_lookup == Lookup(source_section)
        dest_lookup == Lookup(dest_section)
        all_keys == DOMAIN source_lookup \cup DOMAIN dest_lookup
        KeyResults(key) ==
            IF key \notin DOMAIN source_lookup
            THEN SetToBag({MissingInSource(key, section_name)})
            ELSE IF key \notin DOMAIN dest_lookup
            THEN SetToBag({MissingInDest(key, section_name)})
            ELSE CompareRecords(source_lookup[key], dest_lookup[key], key,
                                section_name, prec, thresholds)
    IN  SumBags({<<key, KeyResults(key)>> : key \in all_keys})

(* a comparison that takes a section missing on one side as an empty list *)
PerformDataComparisonOverAll(source, dest, prec, thresholds) ==
    SumBags({<<section_name,
               CompareSection(IF section_name \in DOMAIN source
                              THEN source[section_name] ELSE <<>>,
                              IF section_name \in DOMAIN dest
                              THEN dest[section_name] ELSE <<>>,
                              section_name, prec, thresholds)>>
             : section_name \in DOMAIN source \cup DOMAIN dest})

PerformDataComparison(source, dest, prec, thresholds) ==
    LET common_sections == DOMAIN source \cap DOMAIN dest
    IN  SumBags({<<section_name,
                   CompareSection(source[section_name], dest[section_name],
                                  section_name, prec, thresholds)>>
                 : section_name \in common_sections})

PerformStructuralValidation(source, dest) ==
    ValidateSections(source, dest) (+) ValidateRecordCounts(source, dest)

(* a result added for every validation, whatever its status *)
CalculationResultsForAll(calc_validations) ==
    SumBags({<<i, SetToBag({ComparisonResult(
                "TOTAL_CALCULATION", "CALCULATION", calc_validations[i].field,
                NumVal(calc_validations[i].expected_value),
                NumVal(calc_validations[i].actual_value),
                "CALCULATION_ERROR", "CRITICAL",
                NumVal(calc_validations[i].difference),
                <<"Calculation error: Sum of sections">>)})>>
             : i \in 1..Len(calc_validations)})

(* the CRITICAL result added for every CALCULATION_ERROR validation; the  *)
(* section names that formula_used lists in the note are left out        *)
CalculationResults(calc_validations) ==
    SumBags({<<i, SetToBag({ComparisonResult(
                "TOTAL_CALCULATION", "CALCULATION", calc_validations[i].field,
                NumVal(calc_validations[i].expected_value),
                NumVal(calc_validations[i].actual_value),
                "CALCULATION_ERROR", "CRITICAL",
                NumVal(calc_validations[i].difference),
                <<"Calculation error: Sum of sections">>)})>>
             : i \in {j \in 1..Len(calc_validations) :
                         calc_validations[j].status = "CALCULATION_ERROR"}})

(* compare_reports: (comparison_results, calculation_validations) *)
(* a comparison that validates the totals of the source document *)
CompareReportsValidatingSource(source, dest, prec, thresholds, structure, calculation) ==
    LET structural_results ==
            IF structure THEN PerformStructuralValidation(source, dest) ELSE EmptyBag
        data_results == PerformDataComparison(source, dest, prec, thresholds)
        calc_validations == IF calculation THEN ValidateTotals(source, prec) ELSE <<>>
    IN  [comparison_results |->
            structural_results (+) data_results (+) CalculationResults(calc_validations),
         calculation_validations |-> calc_validations]

CompareReports(source, dest, prec, thresholds, structure, calculation) ==
    LET structural_results ==
            IF structure THEN PerformStructuralValidation(source, dest) ELSE EmptyBag
        data_results == PerformDataComparison(source, dest, prec, thresholds)
        calc_validations == IF calculation THEN ValidateTotals(dest, prec) ELSE <<>>
    IN  [comparison_results |->
            structural_results (+) data_results (+) CalculationResults(calc_validations),
         calculation_validations |-> calc_validations]

(* a match percentage that is 0 for the empty list *)
MatchPercentageZeroWhenEmpty(matches, total) ==
    IF total > 0 THEN (2 * matches * 10000 + total) \div (2 * total) ELSE 0

(* round(matches / total * 100, 2), in hundredths of a percent *)
MatchPercentage(matches, total) ==
    IF total > 0 THEN (2 * matches * 10000 + total) \div (2 * total) ELSE 10000

GenerateSummary(results, calc_validations) ==
    LET matches == CountIn(results, LAMBDA r : r.status = "MATCH")
        total_comparisons == BagCardinality(results)
    IN  [total_records_compared |-> total_comparisons,
         total_fields_compared |-> total_comparisons,
         total_matches |-> matches,
         total_mismatches |-> CountIn(results, LAMBDA r : r.status = "MISMATCH"),
         total_missing_in_source |->
            CountIn(results, LAMBDA r : r.status = "MISSING_IN_SOURCE"),
         total_missing_in_dest |->
            CountIn(results, LAMBDA r : r.status = "MISSING_IN_DEST"),
         overall_match_percentage |-> MatchPercentage(matches, total_comparisons),
         critical_issues |-> CountIn(results, LAMBDA r : r.severity = "CRITICAL"),
         high_issues |-> CountIn(results, LAMBDA r : r.severity = "HIGH"),
         medium_issues |-> CountIn(results, LAMBDA r : r.severity = "MEDIUM"),
         low_issues |-> CountIn(results, LAMBDA r : r.severity = "LOW"),
         has_calculation_errors |->
            \E i \in 1..Len(calc_validations) :
                calc_validations[i].status = "CALCULATION_ERROR",
         has_structural_errors |->
            \E r \in BagToSet(results) :
                r.status \in {"STRUCTURAL_ERROR", "MISSING_IN_SOURCE", "MISSING_IN_DEST"}]

-----------------------------------------------------------------------------
(* Inputs of the comparator *)

Alphabet == {"5", ".", ",", "%", "(", ")", "-", " ", "x"}

TextsOfLen(k) == [1..k -> Alphabet]
ShortTexts == UNION {TextsOfLen(k) : k \in 0..MaxLen}

\* ValidationConfig.precision defaults to 0.01
DefaultPrecision == Scale \div 100
Precisions == {DefaultPrecision, 0}

Milli == Scale \div 1000

ProbeNumbers ==
    {0, 9 * Milli, 10 * Milli, 11 * Milli, Scale \div 2, 5 * Scale,
     -(5 * Scale), (125 * Scale) \div 10, -(250 * Scale), 1234 * Scale}

(* the texts the extractor writes for a percentage and for a parenthesised *)
(* negative: f"{float(num_part)}%" and f"({float})"                         *)
PercentText(n) == FloatStr(n) \o <<"%">>
\* a negative written with a minus sign instead of parentheses
MinusText(n) == <<"-">> \o FloatStr(n)
ParenText(n) == <<"(">> \o FloatStr(n) \o <<")">>

(* digits grouped in thousands with commas: 1234 is written 1,234 *)
RECURSIVE GroupThousands(_)
GroupThousands(ds) ==
    IF Len(ds) <= 3 THEN ds
    ELSE GroupThousands(SubSeq(ds, 1, Len(ds) - 3))
         \o <<",">> \o SubSeq(ds, Len(ds) - 2, Len(ds))

CommaText(n) ==
    LET m == Abs(n)
        fd == FracDigitsOf(m % Scale, FracDigits)
    IN  (IF n < 0 THEN <<"-">> ELSE <<>>)
        \o GroupThousands(NatDigits(m \div Scale))
        \o (IF fd = <<>> THEN <<>> ELSE <<".">> \o fd)

TwelvePointFivePercent == <<"1", "2", ".", "5", "%">>
Paren250 == <<"(", "2", "5", "0", ")">>
Comma1234 == <<"1", ",", "2", "3", "4">>
NoneText == <<"N", "o", "n", "e">>

ExampleTexts ==
    {TwelvePointFivePercent, Paren250, Comma1234, NoneText,
     <<"1", ",", "2", "3", "4", "%">>,
     <<"(", "1", ",", "2", "3", "4", ")">>,
     <<" ", "1", "2", ".", "5", " ", "%", " ">>,
     <<"n", "/", "a">>}

EncodedTexts ==
    {PercentText(n) : n \in ProbeNumbers}
    \cup {ParenText(n) : n \in ProbeNumbers}
    \cup {CommaText(n) : n \in ProbeNumbers}

BasicVals == {NoneVal, IntVal(5)} \cup {NumVal(n) : n \in ProbeNumbers}

Probes == BasicVals \cup {StrVal(s) : s \in ExampleTexts \cup EncodedTexts}

ShortVals == {StrVal(s) : s \in ShortTexts}

(* pairs of arguments: any two probes, None or a number against any short *)
(* text, and any two short texts of at most MaxLen + 1 characters together *)
CmpPairs ==
    (Probes \X Probes)
    \cup (BasicVals \X ShortVals)
    \cup (ShortVals \X BasicVals)
    \cup {p \in ShortVals \X ShortVals : Len(p[1].s) + Len(p[2].s) <= MaxLen + 1}

NoCmp == [is_match |-> FALSE, difference |-> NoneVal]

CmpIdle ==
    /\ source_val = NoneVal
    /\ dest_val = NoneVal
    /\ source_num = NoneVal
    /\ dest_num = NoneVal
    /\ cmp_out = NoCmp

-----------------------------------------------------------------------------
(* Inputs of compare_reports *)

K1 == "Central_Michael_MGG"
K2 == "Central_SMS_GMG"
NoKey == ""
Absent == [t |-> "absent", n |-> 0, s |-> <<>>]

MGG == StrVal(<<"M", "G", "G">>)

Sale1000 == NumVal(1000 * Scale)
Sale1050 == NumVal(1050 * Scale)
\* 1000.005: within the default tolerance of 1000
Sale1000Near == NumVal(1000 * Scale + 5 * Milli)

(* a record with the given composite key, Area and Day Sale; NoKey and     *)
(* Absent leave the entry out of the dict                                  *)
RecordOf(key, area, sale) ==
    LET keyPart == IF key = NoKey THEN <<>> ELSE "composite_key" :> key
        areaPart == IF area = Absent THEN <<>> ELSE "Area" :> area
        salePart == IF sale = Absent THEN <<>> ELSE "Day Sale" :> sale
    IN  keyPart @@ areaPart @@ salePart

RichRecords ==
    {RecordOf(k, a, s) : k \in {K1, K2, NoKey}, a \in {Absent, MGG},
                         s \in {Absent, NoneVal, Sale1000, Sale1050, Sale1000Near, NaN}}

PlainRecords ==
    {RecordOf(K1, Absent, Sale1000), RecordOf(K1, Absent, Sale1050),
     RecordOf(K2, Absent, Sale1000)}

SectionNames == {"BQ", "COMBINED"}

(* documents of one section BQ holding one record *)
SingleRecordDocs == {("BQ" :> <<r>>) : r \in RichRecords}

RecordLists(n) == UNION {[1..k -> PlainRecords] : k \in 0..n}

RECURSIVE TotalRecords(_, _)
TotalRecords(doc, names) ==
    IF names = {} THEN 0
    ELSE LET s == CHOOSE x \in names : TRUE
         IN  Len(doc[s]) + TotalRecords(doc, names \ {s})

(* documents over SectionNames with at most MaxRecs plain records in all *)
PlainDocs ==
    UNION {{doc \in [names -> RecordLists(MaxRecs)] :
               TotalRecords(doc, names) <= MaxRecs}
           : names \in SUBSET SectionNames}

Sale250 == NumVal(250 * Scale)
Sale450 == NumVal(450 * Scale)
Sale500 == NumVal(500 * Scale)
\* 500.01: at the default tolerance from 500
Sale500Edge == NumVal(500 * Scale + DefaultPrecision)
NotANumber == StrVal(<<"x">>)

(* a record of a section: Day Sale and WK Slab entries, Absent leaves the *)
(* entry out                                                              *)
SalesRecord(sale, slab) ==
    LET salePart == IF sale = Absent THEN <<>> ELSE "Day Sale" :> sale
        slabPart == IF slab = Absent THEN <<>> ELSE "WK Slab" :> slab
    IN  ("composite_key" :> K1) @@ salePart @@ slabPart

(* documents with an itemized record of two summable fields and a total *)
(* record that reports each of them right or wrong                       *)
TwoFieldDocs ==
    {("BQ" :> <<SalesRecord(Sale250, Sale250)>>)
        @@ ("COMBINED" :> <<SalesRecord(s, w)>>)
     : s \in {Sale250, Sale500}, w \in {Sale250, Sale500}}

(* pairs of documents: two single-record documents, two plain documents, *)
(* or two two-field documents                                             *)
ReportPairs ==
    (SingleRecordDocs \X SingleRecordDocs) \cup (PlainDocs \X PlainDocs)
    \cup (TwoFieldDocs \X TwoFieldDocs)

NoSummary == <<>>

ReportIdle ==
    /\ enable_structure_validation = TRUE
    /\ enable_calculation_validation = TRUE
    /\ source_data = <<>>
    /\ dest_data = <<>>
    /\ comparison_results = EmptyBag
    /\ calculation_validations = <<>>
    /\ summary = NoSummary

NoSeverity == "NONE"

SevIdle ==
    /\ sev_status = "MATCH"
    /\ sev_difference = NoneVal
    /\ sev_out = NoSeverity

NoRequest == <<>>
NoResponse == <<>>

CallIdle == request = NoRequest /\ response = NoResponse

NoParsed == <<>>

ScanIdle == scanned = 0 /\ current_section = ""

ParseIdle ==
    /\ worksheet = <<>>
    /\ raising = <<>>
    /\ sections = <<>>
    /\ parsed = NoParsed
    /\ ScanIdle

CellIdle ==
    /\ cell_raw = NoneVal
    /\ cell_value = NoneVal

KeyIdle ==
    /\ row_data = <<>>
    /\ composite_key = <<>>

ParserIdle == ParseIdle /\ CellIdle /\ KeyIdle

-----------------------------------------------------------------------------
(* Specification SpecCmp: compare_numbers applied to a pair of values *)

InitCmp ==
    /\ pc = "cmp_input"
    /\ precision \in Precisions
    /\ severity_thresholds = DefaultThresholds
    /\ SevIdle
    /\ ReportIdle
    /\ CallIdle
    /\ ParserIdle
    /\ CallIdle
    /\ \E p \in CmpPairs : source_val = p[1] /\ dest_val = p[2]
    /\ source_num = NoneVal
    /\ dest_num = NoneVal
    /\ cmp_out = NoCmp

compare_numbers ==
    /\ pc = "cmp_input"
    /\ source_num' = ToNumber(source_val)
    /\ dest_num' = ToNumber(dest_val)
    /\ cmp_out' = CompareNumbers(source_val, dest_val, precision)
    /\ pc' = "cmp_done"
    /\ UNCHANGED <<source_val, dest_val, configVars, sevVars, reportVars, parserVars, callVars>>

NextCmp == compare_numbers

SpecCmp == InitCmp /\ [][NextCmp]_vars

-----------------------------------------------------------------------------
(* Specification SpecSev: determine_severity applied to a status, a          *)
(* difference and the configured thresholds                                 *)

HighThresholds == {1000 * Scale, 2 * Scale}
MediumThresholds == {Scale, 5 * Scale}

ThresholdConfigs ==
    [high_value_threshold : HighThresholds, medium_percentage_error : MediumThresholds]

(* magnitudes at, just below and just above each threshold *)
SevMagnitudes ==
    {0, 50 * Scale}
    \cup UNION {{th - 1, th, th + 1} : th \in HighThresholds \cup MediumThresholds}

SevDifferences ==
    {NoneVal, StrVal(<<"n", "/", "a">>), IntVal(0), IntVal(1), IntVal(-2), IntVal(1001)}
    \cup {NumVal(m) : m \in SevMagnitudes}
    \cup {NumVal(-m) : m \in SevMagnitudes}

InitSev ==
    /\ pc = "sev_input"
    /\ precision = DefaultPrecision
    /\ severity_thresholds \in ThresholdConfigs
    /\ sev_status \in ValidationStatus
    /\ sev_difference \in SevDifferences
    /\ sev_out = NoSeverity
    /\ CmpIdle
    /\ ReportIdle
    /\ CallIdle
    /\ ParserIdle
    /\ CallIdle

determine_severity ==
    /\ pc = "sev_input"
    /\ sev_out' = DetermineSeverity(sev_status, sev_difference, severity_thresholds)
    /\ pc' = "sev_done"
    /\ UNCHANGED <<sev_status, sev_difference, configVars, cmpVars, reportVars,
                   parserVars, callVars>>

NextSev == determine_severity

SpecSev == InitSev /\ [][NextSev]_vars

-----------------------------------------------------------------------------
(* Specification Spec: compare_reports on two parsed documents, then       *)
(* generate_summary on what it returned                                    *)

Init ==
    /\ pc = "rep_input"
    /\ precision = DefaultPrecision
    /\ severity_thresholds = DefaultThresholds
    /\ enable_structure_validation \in BOOLEAN
    /\ enable_calculation_validation \in BOOLEAN
    /\ \E p \in ReportPairs : source_data = p[1] /\ dest_data = p[2]
    /\ comparison_results = EmptyBag
    /\ calculation_validations = <<>>
    /\ summary = NoSummary
    /\ CmpIdle
    /\ SevIdle
    /\ ParserIdle
    /\ CallIdle

compare_reports ==
    /\ pc = "rep_input"
    /\ LET out == CompareReports(source_data, dest_data, precision,
                                 severity_thresholds, enable_structure_validation,
                                 enable_calculation_validation)
       IN  /\ comparison_results' = out.comparison_results
           /\ calculation_validations' = out.calculation_validations
    /\ pc' = "rep_compared"
    /\ UNCHANGED <<source_data, dest_data, summary, configVars, cmpVars, sevVars, parserVars, callVars>>

generate_summary ==
    /\ pc = "rep_compared"
    /\ summary' = GenerateSummary(comparison_results, calculation_validations)
    /\ pc' = "rep_summarised"
    /\ UNCHANGED <<source_data, dest_data, comparison_results,
                   calculation_validations, configVars, cmpVars, sevVars, parserVars, callVars>>

Next == compare_reports \/ generate_summary

Spec == Init /\ [][Next]_vars

-----------------------------------------------------------------------------
(* Claims about the Numerical Comparator (checked under SpecCmp) *)

IsNumeric(v) == v.t \in {"num", "int"}

(* the number a numeric value stands for, in units of 1/Scale *)
Units(v) == IF v.t = "int" THEN v.n * Scale ELSE v.n

BothNumeric == IsNumeric(source_val) /\ IsNumeric(dest_val)

\* C1: on two numeric values a and b, compare_numbers returns is_match = TRUE
\* exactly when |a-b| <= tolerance (the boundary |a-b| = tolerance included)
\* and in both cases difference = a-b, source minus destination.
C1_MatchIffWithinTolerance ==
    (pc = "cmp_done" /\ BothNumeric) =>
        /\ cmp_out.is_match <=> (Abs(Units(source_val) - Units(dest_val)) <= precision)
        /\ cmp_out.difference = NumVal(Units(source_val) - Units(dest_val))

\* C1 witness: two numbers exactly one tolerance apart, source below
\* destination, have been compared and match.
C1_Witness ==
    /\ pc = "cmp_done"
    /\ BothNumeric
    /\ precision > 0
    /\ Units(dest_val) - Units(source_val) = precision
    /\ cmp_out.is_match
    /\ cmp_out.difference = NumVal(-precision)

(* text is one of the written forms of the number n *)
Encodes(text, n) ==
    \/ text = PercentText(n)
    \/ text = ParenText(-n)
    \/ text = CommaText(n)
    \/ text = TwelvePointFivePercent /\ n = (125 * Scale) \div 10
    \/ text = Paren250 /\ n = -(250 * Scale)
    \/ text = Comma1234 /\ n = 1234 * Scale

EncodedAs(v, num) == v.t = "str" /\ \E n \in ProbeNumbers : Encodes(v.s, n) /\ num = NumVal(n)

\* C2: the coercion maps percent text to its magnitude ("12.5%" to 12.5),
\* parenthesis-wrapped text to the negated interior ("(250)" to -250) and
\* comma-thousands text to the number ("1,234" to 1234); so a string-encoded
\* number compared with the plain number of the same value is a match with
\* difference 0; and None never coerces to a number.
C2_CoercionOfEncodedNumbers ==
    pc = "cmp_done" =>
        /\ \A n \in ProbeNumbers :
              /\ (source_val.t = "str" /\ Encodes(source_val.s, n)) => source_num = NumVal(n)
              /\ (dest_val.t = "str" /\ Encodes(dest_val.s, n)) => dest_num = NumVal(n)
        /\ (EncodedAs(source_val, dest_val) \/ EncodedAs(dest_val, source_val)) =>
              cmp_out = [is_match |-> TRUE, difference |-> NumVal(0)]
        /\ source_val = NoneVal => source_num = NoneVal
        /\ dest_val = NoneVal => dest_num = NoneVal

\* C2 witness: "(250)" has been compared with the number -250 and matched.
C2_Witness ==
    /\ pc = "cmp_done"
    /\ source_val = StrVal(Paren250)
    /\ dest_val = NumVal(-(250 * Scale))
    /\ source_num = NumVal(-(250 * Scale))
    /\ cmp_out = [is_match |-> TRUE, difference |-> NumVal(0)]

HasLetter(v) == v.t = "str" /\ \E i \in 1..Len(v.s) : v.s[i] \in {"x", "N", "n"}

\* C3: when at least one side cannot be coerced to a number (None, or text that
\* is not a number, a percentage or a parenthesised number), compare_numbers
\* returns is_match = (str(a) = str(b)) and difference = None.
C3_FallbackToStringEquality ==
    pc = "cmp_done" =>
        /\ (source_val = NoneVal \/ HasLetter(source_val)) => source_num = NoneVal
        /\ (dest_val = NoneVal \/ HasLetter(dest_val)) => dest_num = NoneVal
        /\ (source_num = NoneVal \/ dest_num = NoneVal) =>
              cmp_out = [is_match |-> PyStr(source_val) = PyStr(dest_val),
                         difference |-> NoneVal]

\* C3 witness: None has been compared with the text "None"; neither is a
\* number and their string forms are equal, so they match.
C3_Witness ==
    /\ pc = "cmp_done"
    /\ source_val = NoneVal
    /\ dest_val = StrVal(NoneText)
    /\ cmp_out = [is_match |-> TRUE, difference |-> NoneVal]

-----------------------------------------------------------------------------
(* Claims about severity assignment (checked under SpecSev) *)

(* the severity rule as the specification words it *)
SeverityRule(status, difference, thresholds) ==
    CASE status = "CALCULATION_ERROR" -> "CRITICAL"
      [] status \in {"MISSING_IN_SOURCE", "MISSING_IN_DEST"} -> "HIGH"
      [] status = "MISMATCH" /\ IsNumeric(difference)
         /\ Abs(Units(difference)) > thresholds.high_value_threshold -> "CRITICAL"
      [] status = "MISMATCH" /\ IsNumeric(difference)
         /\ Abs(Units(difference)) <= thresholds.high_value_threshold
         /\ Abs(Units(difference)) > thresholds.medium_percentage_error -> "HIGH"
      [] status = "MISMATCH" /\ IsNumeric(difference)
         /\ Abs(Units(difference)) <= thresholds.high_value_threshold
         /\ Abs(Units(difference)) <= thresholds.medium_percentage_error -> "MEDIUM"
      [] status = "MISMATCH" /\ ~IsNumeric(difference) -> "MEDIUM"
      [] OTHER -> "LOW"

\* C9: determine_severity is a total function of (status, difference,
\* thresholds): CALCULATION_ERROR gives CRITICAL; MISSING_IN_SOURCE and
\* MISSING_IN_DEST give HIGH; MISMATCH with a numeric difference gives CRITICAL
\* when |difference| > high_value_threshold, else HIGH when |difference| >
\* medium_percentage_error, else MEDIUM; MISMATCH with a non-numeric difference
\* gives MEDIUM; every other status gives LOW.
C9_SeverityRule ==
    pc = "sev_done" =>
        /\ sev_out \in SeverityLevel
        /\ sev_out = SeverityRule(sev_status, sev_difference, severity_thresholds)

\* C9 witness: a MISMATCH whose difference is exactly the high-value threshold
\* (and above the medium threshold) has been rated HIGH, not CRITICAL.
C9_Witness ==
    /\ pc = "sev_done"
    /\ sev_status = "MISMATCH"
    /\ sev_difference = NumVal(-severity_thresholds.high_value_threshold)
    /\ severity_thresholds.medium_percentage_error < severity_thresholds.high_value_threshold
    /\ sev_out = "HIGH"

-----------------------------------------------------------------------------
(* Claims about compare_reports and generate_summary (checked under Spec) *)

Compared == pc \in {"rep_compared", "rep_summarised"}

CommonSections == DOMAIN source_data \cap DOMAIN dest_data

(* number of returned results that satisfy Test *)
Results(Test(_)) == CountIn(comparison_results, Test)

(* the (section, key, field) triples that per-record comparison compares *)
ComparedFields ==
    UNION {UNION {{<<section, key, field>> :
                     field \in (DOMAIN Lookup(source_data[section])[key]
                                \cup DOMAIN Lookup(dest_data[section])[key])
                               \ {"composite_key"}}
                  : key \in DOMAIN Lookup(source_data[section])
                            \cap DOMAIN Lookup(dest_data[section])}
           : section \in CommonSections}

SourceValue(c) == Get(Lookup(source_data[c[1]])[c[2]], c[3])
DestValue(c) == Get(Lookup(dest_data[c[1]])[c[2]], c[3])
FieldMatches(c) == CompareNumbers(SourceValue(c), DestValue(c), precision).is_match

\* C4: for a key present in both documents of a common section, every field
\* of the union of the two records' field names except composite_key is
\* compared, and a result (status MISMATCH, carrying both values) exists for
\* exactly the fields the comparator reports as not matching; no result
\* returned by compare_reports has status MATCH.
C4_OnlyMismatchesMaterialized ==
    Compared =>
        /\ \A c \in ComparedFields :
              /\ Results(LAMBDA r : r.section = c[1] /\ r.key = c[2] /\ r.field = c[3])
                    = IF FieldMatches(c) THEN 0 ELSE 1
              /\ ~FieldMatches(c) =>
                    Results(LAMBDA r : /\ r.section = c[1] /\ r.key = c[2]
                                       /\ r.field = c[3]
                                       /\ r.status = "MISMATCH"
                                       /\ r.source_value = SourceValue(c)
                                       /\ r.dest_value = DestValue(c)) = 1
        /\ \A section \in CommonSections :
              \A key \in DOMAIN Lookup(source_data[section])
                          \cap DOMAIN Lookup(dest_data[section]) :
                 Results(LAMBDA r : /\ r.section = section /\ r.key = key
                                    /\ <<section, key, r.field>> \notin ComparedFields) = 0
        /\ Results(LAMBDA r : r.status = "MATCH") = 0

\* C4 witness: records of the same key whose Day Sale agrees within tolerance
\* (1000 and 1000.005) and whose Area differs (MGG and absent) have been
\* compared; the one result is the Area mismatch.
C4_Witness ==
    /\ pc = "rep_compared"
    /\ source_data = ("BQ" :> <<RecordOf(K1, MGG, Sale1000)>>)
    /\ dest_data = ("BQ" :> <<RecordOf(K1, Absent, Sale1000Near)>>)
    /\ BagCardinality(comparison_results) = 1
    /\ Results(LAMBDA r : r.field = "Area" /\ r.status = "MISMATCH"
                          /\ r.key = K1 /\ r.section = "BQ") = 1

(* number of compared fields that matched within tolerance *)
MatchedFieldCount == Cardinality({c \in ComparedFields : FieldMatches(c)})

\* C5: per-field matches are counted in the aggregates: after compare_reports
\* and generate_summary, total_matches is the number of compared fields that
\* matched within tolerance.
C5_MatchesCountedInSummary ==
    pc = "rep_summarised" => summary.total_matches = MatchedFieldCount

(* keys of a common section present in exactly one document *)
OneSidedKeys(section) ==
    (DOMAIN Lookup(source_data[section]) \cup DOMAIN Lookup(dest_data[section]))
    \ (DOMAIN Lookup(source_data[section]) \cap DOMAIN Lookup(dest_data[section]))

\* C6: in a section common to both documents, every composite key present in
\* exactly one document yields exactly one result, for field ENTIRE_RECORD,
\* with status MISSING_IN_DEST when only the source has the key and
\* MISSING_IN_SOURCE when only the destination has it, severity HIGH, and no
\* field-level result for that key.
C6_OneSidedKeyYieldsOneMissingResult ==
    Compared =>
        \A section \in CommonSections :
           \A key \in OneSidedKeys(section) :
              /\ Results(LAMBDA r : r.section = section /\ r.key = key) = 1
              /\ Results(LAMBDA r :
                    /\ r.section = section /\ r.key = key
                    /\ r.field = "ENTIRE_RECORD"
                    /\ r.severity = "HIGH"
                    /\ r.status = IF key \in DOMAIN Lookup(source_data[section])
                                  THEN "MISSING_IN_DEST" ELSE "MISSING_IN_SOURCE") = 1

\* C6 witness: section BQ holds key K1 only in the source and key K2 only in
\* the destination; both missing-record results have been returned.
C6_Witness ==
    /\ pc = "rep_compared"
    /\ "BQ" \in CommonSections
    /\ K1 \in DOMAIN Lookup(source_data["BQ"]) \ DOMAIN Lookup(dest_data["BQ"])
    /\ K2 \in DOMAIN Lookup(dest_data["BQ"]) \ DOMAIN Lookup(source_data["BQ"])
    /\ Results(LAMBDA r : r.key = K1 /\ r.status = "MISSING_IN_DEST") = 1
    /\ Results(LAMBDA r : r.key = K2 /\ r.status = "MISSING_IN_SOURCE") = 1

(* section names present in exactly one document *)
OneSidedSections ==
    (DOMAIN source_data \cup DOMAIN dest_data) \ CommonSections

\* C7: validate_sections emits, for every section name present in exactly one
\* document, exactly one result keyed SECTION_<name>: MISSING_IN_DEST with
\* severity CRITICAL when only the source has the section, MISSING_IN_SOURCE
\* with severity HIGH when only the destination has it; a section present in
\* both documents has no such result.  (compare_reports calls validate_sections
\* when structural validation is enabled.)
C7_OneSidedSectionYieldsOneResult ==
    (Compared /\ enable_structure_validation) =>
        \A name \in SectionNames :
           /\ Results(LAMBDA r : r.key = "SECTION_" \o name)
                 = IF name \in OneSidedSections THEN 1 ELSE 0
           /\ name \in DOMAIN source_data \ DOMAIN dest_data =>
                 Results(LAMBDA r : /\ r.key = "SECTION_" \o name
                                    /\ r.status = "MISSING_IN_DEST"
                                    /\ r.severity = "CRITICAL") = 1
           /\ name \in DOMAIN dest_data \ DOMAIN source_data =>
                 Results(LAMBDA r : /\ r.key = "SECTION_" \o name
                                    /\ r.status = "MISSING_IN_SOURCE"
                                    /\ r.severity = "HIGH") = 1

\* C7 witness: BQ is only in the source and COMBINED only in the destination;
\* structural validation returned one result for each.
C7_Witness ==
    /\ pc = "rep_compared"
    /\ enable_structure_validation
    /\ DOMAIN source_data = {"BQ"}
    /\ DOMAIN dest_data = {"COMBINED"}
    /\ Results(LAMBDA r : r.key = "SECTION_BQ" /\ r.severity = "CRITICAL") = 1
    /\ Results(LAMBDA r : r.key = "SECTION_COMBINED" /\ r.severity = "HIGH") = 1

CountsDiffer(name) ==
    name \in CommonSections /\ Len(source_data[name]) # Len(dest_data[name])

\* C8: validate_record_counts emits exactly one result (field RECORD_COUNT,
\* status MISMATCH, severity HIGH, difference = source_count - dest_count) for
\* every section present in both documents whose record counts differ, and none
\* for a common section with equal counts or a section present on one side only.
C8_RecordCountMismatch ==
    (Compared /\ enable_structure_validation) =>
        \A name \in SectionNames :
           /\ Results(LAMBDA r : r.field = "RECORD_COUNT" /\ r.section = name)
                 = IF CountsDiffer(name) THEN 1 ELSE 0
           /\ CountsDiffer(name) =>
                 Results(LAMBDA r :
                    /\ r.field = "RECORD_COUNT" /\ r.section = name
                    /\ r.status = "MISMATCH" /\ r.severity = "HIGH"
                    /\ r.difference = IntVal(Len(source_data[name]) - Len(dest_data[name]))) = 1

\* C8 witness: a common section with fewer records in the source than in the
\* destination has its RECORD_COUNT result, with a negative difference, while
\* another section present on one side only has none.
C8_Witness ==
    /\ pc = "rep_compared"
    /\ enable_structure_validation
    /\ \E name \in CommonSections :
          /\ Len(source_data[name]) < Len(dest_data[name])
          /\ Results(LAMBDA r : r.field = "RECORD_COUNT" /\ r.section = name
                                /\ r.difference.n < 0) = 1
    /\ OneSidedSections # {}

(* two documents with the same single section BQ, one record each under the *)
(* same composite key, identical except for Day Sale, numeric on both sides *)
(* and further apart than the tolerance                                    *)
DifferOnlyInDaySale ==
    /\ DOMAIN source_data = {"BQ"} /\ DOMAIN dest_data = {"BQ"}
    /\ Len(source_data["BQ"]) = 1 /\ Len(dest_data["BQ"]) = 1
    /\ LET s == source_data["BQ"][1]
           d == dest_data["BQ"][1]
       IN  /\ DOMAIN s = DOMAIN d
           /\ {"composite_key", "Day Sale"} \subseteq DOMAIN s
           /\ \A f \in DOMAIN s \ {"Day Sale"} : s[f] = d[f]
           /\ IsNumeric(s["Day Sale"]) /\ IsNumeric(d["Day Sale"])
           /\ Abs(Units(s["Day Sale"]) - Units(d["Day Sale"])) > precision

\* C10: end to end, on two documents with the same single itemized section and
\* one record each under the same composite key, identical except for one
\* numeric field whose values differ by more than the tolerance, compare_reports
\* returns exactly one result: that key, section and field, status MISMATCH,
\* difference = source value - destination value, severity as the severity
\* rule gives it (1000 against 1050: difference -50, severity HIGH).
C10_EndToEndSingleMismatch ==
    (Compared /\ DifferOnlyInDaySale) =>
        LET s == source_data["BQ"][1]
            d == dest_data["BQ"][1]
            diff == NumVal(Units(s["Day Sale"]) - Units(d["Day Sale"]))
        IN  /\ comparison_results =
                  SetToBag({[key |-> s["composite_key"], section |-> "BQ",
                             field |-> "Day Sale", source_value |-> s["Day Sale"],
                             dest_value |-> d["Day Sale"], status |-> "MISMATCH",
                             severity |-> SeverityRule("MISMATCH", diff, severity_thresholds),
                             difference |-> diff, notes |-> <<>>]})
            /\ (s["Day Sale"] = Sale1000 /\ d["Day Sale"] = Sale1050) =>
                  Results(LAMBDA r : /\ r.difference = NumVal(-(50 * Scale))
                                     /\ r.severity = "HIGH") = 1

\* C10 witness: source {Central_Michael_MGG, MGG, 1000} and destination
\* {Central_Michael_MGG, MGG, 1050} in section BQ have been compared, giving
\* one result with difference -50.
C10_Witness ==
    /\ pc = "rep_compared"
    /\ source_data = ("BQ" :> <<RecordOf(K1, MGG, Sale1000)>>)
    /\ dest_data = ("BQ" :> <<RecordOf(K1, MGG, Sale1050)>>)
    /\ BagCardinality(comparison_results) = 1
    /\ Results(LAMBDA r : r.key = K1 /\ r.field = "Day Sale"
                          /\ r.difference = NumVal(-(50 * Scale))) = 1

-----------------------------------------------------------------------------
(* Specification SpecTot: validate_totals applied to a destination document *)

ItemRecords ==
    {SalesRecord(s, Absent) :
        s \in {Absent, NoneVal, Sale250, StrVal(ParenText(250 * Scale)), NotANumber}}
    \cup {SalesRecord(Sale250, Sale250)}

TotalRecordsOfSection ==
    {SalesRecord(s, Absent) :
        s \in {Absent, NoneVal, Sale500, Sale450, Sale500Edge, NumVal(0), NotANumber}}
    \cup {SalesRecord(Sale500, Sale250)}

ItemSectionNames == {"BQ", "NA"}

(* itemized parts: documents over BQ and NA with at most MaxRecs records *)
ItemDocs ==
    UNION {{doc \in [names -> UNION {[1..k -> ItemRecords] : k \in 0..MaxRecs}] :
               TotalRecords(doc, names) <= MaxRecs}
           : names \in SUBSET ItemSectionNames}

(* total parts: COMBINED, CENTRAL and TOTAL, each present or not *)
CombinedParts ==
    {<<>>, "COMBINED" :> <<>>,
     "COMBINED" :> <<SalesRecord(Sale500, Absent), SalesRecord(Sale450, Absent)>>}
    \cup {("COMBINED" :> <<r>>) : r \in TotalRecordsOfSection}
CentralParts == {<<>>, "CENTRAL" :> <<SalesRecord(Sale450, Absent)>>}
TotalParts == {<<>>, "TOTAL" :> <<>>, "TOTAL" :> <<SalesRecord(Sale500, Absent)>>}

TotalsDocs ==
    {i @@ c @@ m @@ x :
        i \in ItemDocs, c \in CombinedParts, m \in CentralParts, x \in TotalParts}

InitTot ==
    /\ pc = "tot_input"
    /\ precision = DefaultPrecision
    /\ severity_thresholds = DefaultThresholds
    /\ enable_structure_validation = TRUE
    /\ enable_calculation_validation = TRUE
    /\ source_data = <<>>
    /\ dest_data \in TotalsDocs
    /\ comparison_results = EmptyBag
    /\ calculation_validations = <<>>
    /\ summary = NoSummary
    /\ CmpIdle
    /\ SevIdle
    /\ ParserIdle
    /\ CallIdle

validate_totals ==
    /\ pc = "tot_input"
    /\ calculation_validations' = ValidateTotals(dest_data, precision)
    /\ pc' = "tot_done"
    /\ UNCHANGED <<source_data, dest_data, comparison_results, summary,
                   configVars, cmpVars, sevVars, parserVars, callVars>>

NextTot == validate_totals

SpecTot == InitTot /\ [][NextTot]_vars

-----------------------------------------------------------------------------
(* Claims about validate_totals (checked under SpecTot) *)

TotalNames == {"COMBINED", "CENTRAL", "TOTAL"}

(* the total section of the destination by priority, "" when there is none *)
TotalSectionUsed ==
    IF "COMBINED" \in DOMAIN dest_data THEN "COMBINED"
    ELSE IF "CENTRAL" \in DOMAIN dest_data THEN "CENTRAL"
    ELSE IF "TOTAL" \in DOMAIN dest_data THEN "TOTAL"
    ELSE ""

ItemizedSections == DOMAIN dest_data \ TotalNames

(* validate_totals has a total record to compare against *)
TotalsApply ==
    /\ TotalSectionUsed # ""
    /\ ItemizedSections # {}
    /\ dest_data[TotalSectionUsed] # <<>>

TotalRecord == dest_data[TotalSectionUsed][1]

(* the itemized records, by section and position, where a field is a number *)
NumericCells(field) ==
    {c \in UNION {{<<s, i>> : i \in 1..Len(dest_data[s])} : s \in ItemizedSections} :
        IsNumeric(ToNumber(Get(dest_data[c[1]][c[2]], field)))}

RECURSIVE CellSum(_, _)
CellSum(cells, field) ==
    IF cells = {} THEN 0
    ELSE LET c == CHOOSE x \in cells : TRUE
         IN  ToNumber(dest_data[c[1]][c[2]][field]).n + CellSum(cells \ {c}, field)

ExpectedTotal(field) == CellSum(NumericCells(field), field)
ActualTotal(field) == ToNumber(Get(TotalRecord, field))

ValidationsOf(field) ==
    {i \in 1..Len(calculation_validations) : calculation_validations[i].field = field}

SummableFieldSet == {SummableFields[i] : i \in 1..Len(SummableFields)}

\* C11: for each summable field with at least one numeric value in the
\* itemized records and a numeric value on the total section's first record,
\* validate_totals emits exactly one validation with expected = the sum of the
\* field over all records of all non-total sections, actual = the total
\* record's value, difference = expected - actual, status CALCULATION_ERROR
\* exactly when |expected - actual| > tolerance, else MATCH; any other field
\* yields no validation, and no validation is for a field outside the catalog.
C11_OneValidationPerSummedField ==
    (pc = "tot_done" /\ TotalsApply) =>
        /\ \A field \in SummableFieldSet :
              IF NumericCells(field) # {} /\ IsNumeric(ActualTotal(field))
              THEN /\ Cardinality(ValidationsOf(field)) = 1
                   /\ \A i \in ValidationsOf(field) :
                        LET v == calculation_validations[i]
                        IN  /\ v.expected_value = ExpectedTotal(field)
                            /\ v.actual_value = ActualTotal(field).n
                            /\ v.difference = ExpectedTotal(field) - ActualTotal(field).n
                            /\ v.status =
                                 IF Abs(ExpectedTotal(field) - ActualTotal(field).n) > precision
                                 THEN "CALCULATION_ERROR" ELSE "MATCH"
              ELSE ValidationsOf(field) = {}
        /\ \A i \in 1..Len(calculation_validations) :
              calculation_validations[i].field \in SummableFieldSet

\* C11 witness: two itemized sections with a numeric Day Sale each (250 and
\* the text (250.0)), one record also with a WK Slab, a COMBINED record that
\* has a Day Sale but no WK Slab: one validation, for Day Sale, expected 0.
C11_Witness ==
    /\ pc = "tot_done"
    /\ TotalsApply
    /\ {"BQ", "NA"} \subseteq DOMAIN dest_data
    /\ Cardinality(NumericCells("Day Sale")) = 2
    /\ NumericCells("WK Slab") # {}
    /\ ~IsNumeric(ActualTotal("WK Slab"))
    /\ Len(calculation_validations) = 1
    /\ calculation_validations[1].field = "Day Sale"
    /\ calculation_validations[1].expected_value = 0
    /\ calculation_validations[1].status = "CALCULATION_ERROR"

(* the itemized Day Sale values sum to 500 and the total section reports v *)
Sum500Against(v) ==
    /\ pc = "tot_done"
    /\ TotalsApply
    /\ NumericCells("Day Sale") # {}
    /\ ExpectedTotal("Day Sale") = 500 * Scale
    /\ Get(TotalRecord, "Day Sale") = v

\* C12 (as stated): itemized records summing to 500 against a total of 500
\* give MATCH with difference 0; against a total of 450 they give
\* CALCULATION_ERROR, difference 50 and percentage_error about 11.11 (between
\* 11.1 and 11.2); percentage_error is 0 whenever the expected sum is 0.
C12_ExampleAsStated ==
    /\ Sum500Against(Sale500) =>
          \A i \in ValidationsOf("Day Sale") :
             /\ calculation_validations[i].status = "MATCH"
             /\ calculation_validations[i].difference = 0
    /\ Sum500Against(Sale450) =>
          \A i \in ValidationsOf("Day Sale") :
             /\ calculation_validations[i].status = "CALCULATION_ERROR"
             /\ calculation_validations[i].difference = 50 * Scale
             /\ calculation_validations[i].percentage_error >= (111 * Scale) \div 10
             /\ calculation_validations[i].percentage_error <= (112 * Scale) \div 10
    /\ pc = "tot_done" =>
          \A i \in 1..Len(calculation_validations) :
             calculation_validations[i].expected_value = 0
                => calculation_validations[i].percentage_error = 0

\* C12 (amended): the same, with percentage_error = |difference / expected|
\* x 100 = 10 for the total of 450, and 0 for the total of 500.
C12_ExampleAmended ==
    /\ Sum500Against(Sale500) =>
          /\ Cardinality(ValidationsOf("Day Sale")) = 1
          /\ \A i \in ValidationsOf("Day Sale") :
               /\ calculation_validations[i].status = "MATCH"
               /\ calculation_validations[i].difference = 0
               /\ calculation_validations[i].percentage_error = 0
    /\ Sum500Against(Sale450) =>
          /\ Cardinality(ValidationsOf("Day Sale")) = 1
          /\ \A i \in ValidationsOf("Day Sale") :
               /\ calculation_validations[i].status = "CALCULATION_ERROR"
               /\ calculation_validations[i].difference = 50 * Scale
               /\ calculation_validations[i].percentage_error = 10 * Scale
    /\ pc = "tot_done" =>
          \A i \in 1..Len(calculation_validations) :
             calculation_validations[i].expected_value = 0
                => calculation_validations[i].percentage_error = 0

\* C12 witness: two records of 250 validated against a COMBINED total of 450.
C12_Witness ==
    /\ Sum500Against(Sale450)
    /\ Cardinality(NumericCells("Day Sale")) = 2
    /\ \E i \in ValidationsOf("Day Sale") :
          calculation_validations[i].percentage_error = 10 * Scale

\* C13: validate_totals returns nothing unless the destination has a total
\* section and at least one non-total section; the validations compare against
\* the first record of the first present of COMBINED, CENTRAL, TOTAL, and sum
\* over the sections other than these three.
C13_TotalSectionByPriority ==
    pc = "tot_done" =>
        /\ (TotalSectionUsed = "" \/ ItemizedSections = {})
              => calculation_validations = <<>>
        /\ \A i \in 1..Len(calculation_validations) :
              LET v == calculation_validations[i]
              IN  /\ TotalsApply
                  /\ v.actual_value = ActualTotal(v.field).n
                  /\ v.expected_value = ExpectedTotal(v.field)
                  /\ v.formula_used = ItemizedSections

\* C13 witness: CENTRAL (450) and TOTAL (500) are both present without
\* COMBINED, next to an itemized record of 250; the validation compares 250
\* with CENTRAL's 450 and leaves CENTRAL's and TOTAL's records out of the sum.
C13_Witness ==
    /\ pc = "tot_done"
    /\ TotalNames \cap DOMAIN dest_data = {"CENTRAL", "TOTAL"}
    /\ dest_data["TOTAL"] # <<>>
    /\ Len(calculation_validations) = 1
    /\ calculation_validations[1].actual_value = 450 * Scale
    /\ calculation_validations[1].expected_value = 250 * Scale

-----------------------------------------------------------------------------
(* Claims about the calculation results of compare_reports and about       *)
(* generate_summary (checked under Spec)                                   *)

CalculationErrors ==
    {i \in 1..Len(calculation_validations) :
        calculation_validations[i].status = "CALCULATION_ERROR"}

\* C14: in the output of compare_reports the results keyed TOTAL_CALCULATION
\* correspond one-to-one to the returned validations whose status is
\* CALCULATION_ERROR (same field, expected as source_value, actual as
\* dest_value, same difference), each with status CALCULATION_ERROR and
\* severity CRITICAL; with calculation validation disabled there are no
\* validations and no TOTAL_CALCULATION results.
C14_CalculationErrorsSurface ==
    Compared =>
        /\ Results(LAMBDA r : r.key = "TOTAL_CALCULATION")
              = Cardinality(CalculationErrors)
        /\ \A i \in CalculationErrors :
              LET v == calculation_validations[i]
              IN  /\ Results(LAMBDA r : r.key = "TOTAL_CALCULATION"
                                        /\ r.field = v.field) = 1
                  /\ Results(LAMBDA r :
                        /\ r.key = "TOTAL_CALCULATION" /\ r.field = v.field
                        /\ r.source_value = NumVal(v.expected_value)
                        /\ r.dest_value = NumVal(v.actual_value)
                        /\ r.difference = NumVal(v.difference)
                        /\ r.status = "CALCULATION_ERROR"
                        /\ r.severity = "CRITICAL") = 1
        /\ ~enable_calculation_validation =>
              /\ calculation_validations = <<>>
              /\ Results(LAMBDA r : r.key = "TOTAL_CALCULATION") = 0

\* C14 witness: the destination's COMBINED record reports Day Sale right
\* (250) and WK Slab wrong (500 against 250): two validations, one of them a
\* CALCULATION_ERROR, and one TOTAL_CALCULATION result, for WK Slab.
C14_Witness ==
    /\ pc = "rep_compared"
    /\ enable_calculation_validation
    /\ Len(calculation_validations) = 2
    /\ Cardinality(CalculationErrors) = 1
    /\ Results(LAMBDA r : r.key = "TOTAL_CALCULATION" /\ r.field = "WK Slab"
                          /\ r.severity = "CRITICAL") = 1
    /\ Results(LAMBDA r : r.key = "TOTAL_CALCULATION") = 1

-----------------------------------------------------------------------------
(* Specification SpecSum: generate_summary applied to any result list *)

(* a result of the given status and severity; generate_summary reads no *)
(* other attribute                                                      *)
ResultOf(status, severity) ==
    ComparisonResult("Central_Michael_MGG", "BQ", "Day Sale", NoneVal, NoneVal,
                     status, severity, NoneVal, <<>>)

ResultKinds ==
    {ResultOf("MATCH", "LOW"), ResultOf("MATCH", "MEDIUM"),
     ResultOf("MISMATCH", "LOW"), ResultOf("MISMATCH", "MEDIUM"),
     ResultOf("MISMATCH", "HIGH"), ResultOf("MISMATCH", "CRITICAL"),
     ResultOf("MISSING_IN_SOURCE", "HIGH"), ResultOf("MISSING_IN_DEST", "HIGH"),
     ResultOf("MISSING_IN_DEST", "CRITICAL"), ResultOf("CALCULATION_ERROR", "CRITICAL"),
     ResultOf("STRUCTURAL_ERROR", "HIGH"), ResultOf("STRUCTURAL_ERROR", "LOW")}

(* the entries of a list, counted *)
RECURSIVE ListToBag(_)
ListToBag(list) ==
    IF list = <<>> THEN EmptyBag
    ELSE SetToBag({Head(list)}) (+) ListToBag(Tail(list))

(* result lists of at most MaxRecs + 1 entries *)
ResultLists == UNION {[1..k -> ResultKinds] : k \in 0..(MaxRecs + 1)}

ValidationOf(status) ==
    [field |-> "Day Sale", expected_value |-> 0, actual_value |-> 0,
     difference |-> 0, percentage_error |-> 0, status |-> status,
     formula_used |-> {"BQ"}]

ValidationLists ==
    {<<>>, <<ValidationOf("MATCH")>>,
     <<ValidationOf("MATCH"), ValidationOf("CALCULATION_ERROR")>>}

InitSum ==
    /\ pc = "rep_compared"
    /\ precision = DefaultPrecision
    /\ severity_thresholds = DefaultThresholds
    /\ enable_structure_validation = TRUE
    /\ enable_calculation_validation = TRUE
    /\ source_data = <<>>
    /\ dest_data = <<>>
    /\ \E list \in ResultLists : comparison_results = ListToBag(list)
    /\ calculation_validations \in ValidationLists
    /\ summary = NoSummary
    /\ CmpIdle
    /\ SevIdle
    /\ ParserIdle
    /\ CallIdle

NextSum == generate_summary

SpecSum == InitSum /\ [][NextSum]_vars

-----------------------------------------------------------------------------
(* Claims about generate_summary on any result list (checked under SpecSum) *)

\* C19: generate_summary counts the results per status and per severity, with
\* critical + high + medium + low equal to the number of results, and sets
\* overall_match_percentage to (MATCH results) / (results) x 100, to the two
\* decimals the summary keeps, which is 100 for the empty list.
C19_SummaryCounts ==
    pc = "rep_summarised" =>
        LET total == BagCardinality(comparison_results)
            matches == Results(LAMBDA r : r.status = "MATCH")
        IN  /\ summary.total_matches = matches
            /\ summary.total_mismatches = Results(LAMBDA r : r.status = "MISMATCH")
            /\ summary.total_missing_in_source
                  = Results(LAMBDA r : r.status = "MISSING_IN_SOURCE")
            /\ summary.total_missing_in_dest
                  = Results(LAMBDA r : r.status = "MISSING_IN_DEST")
            /\ summary.critical_issues = Results(LAMBDA r : r.severity = "CRITICAL")
            /\ summary.high_issues = Results(LAMBDA r : r.severity = "HIGH")
            /\ summary.medium_issues = Results(LAMBDA r : r.severity = "MEDIUM")
            /\ summary.low_issues = Results(LAMBDA r : r.severity = "LOW")
            /\ summary.critical_issues + summary.high_issues
                  + summary.medium_issues + summary.low_issues = total
            /\ IF total = 0
               THEN summary.overall_match_percentage = 100 * 100
               ELSE 2 * Abs(summary.overall_match_percentage * total
                            - matches * 100 * 100) <= total

\* C19 witness: a list of three results, one of them a MATCH, has been
\* summarised: one match, 33.33 percent.
C19_Witness ==
    /\ pc = "rep_summarised"
    /\ BagCardinality(comparison_results) = 3
    /\ summary.total_matches = 1
    /\ summary.overall_match_percentage = 3333
    /\ summary.critical_issues = 1

-----------------------------------------------------------------------------
(* ExcelStructureDetector *)

(* the characters of a string, as text is kept here *)
Chars(str) == [i \in 1..Len(str) |-> SubSeq(str, i, i)]

(* the string of a text *)
RECURSIVE Text(_)
Text(s) == IF s = <<>> THEN "" ELSE Head(s) \o Text(Tail(s))

UpperCase == "ABCDEFGHIJKLMNOPQRSTUVWXYZ"
LowerCase == "abcdefghijklmnopqrstuvwxyz"

UpperLetters == {SubSeq(UpperCase, i, i) : i \in 1..Len(UpperCase)}
LowerLetters == {SubSeq(LowerCase, i, i) : i \in 1..Len(LowerCase)}

LowerOf ==
    [c \in UpperLetters |->
        SubSeq(LowerCase, CHOOSE j \in 1..Len(UpperCase) : SubSeq(UpperCase, j, j) = c,
               CHOOSE j \in 1..Len(UpperCase) : SubSeq(UpperCase, j, j) = c)]

LowerChar(c) == IF c \in UpperLetters THEN LowerOf[c] ELSE c

(* str.lower() *)
Lower(s) == [i \in 1..Len(s) |-> LowerChar(s[i])]

(* keyword in text, both as characters *)
ContainsText(text, keyword) ==
    \E i \in 1..(Len(text) - Len(keyword) + 1) :
        \A j \in 1..Len(keyword) : text[i + j - 1] = keyword[j]

(* keyword in text *)
Contains(text, keyword) == ContainsText(text, Chars(keyword))

(* self.section_keywords, in the order the dict enumerates it *)
SectionKeywords ==
    <<[section_type |-> "BQ",
       keywords |-> <<Chars("baqala"), Chars("bq"), Chars("baQALA")>>],
      [section_type |-> "NA",
       keywords |-> <<Chars("national accounts"), Chars("na"),
                      Chars("national_accounts")>>],
      [section_type |-> "COMBINED",
       keywords |-> <<Chars("total"), Chars("combined"), Chars("central"),
                      Chars("summary")>>]>>

(* worksheet.max_row and worksheet.max_column *)
MaxRow(ws) == Len(ws)
MaxColumn(ws) == Len(ws[1])

(* _get_cell_value_safe: the cell's value, a merged cell holding the value *)
(* of its range                                                           *)
GetCellValueSafe(ws, row, col) == ws[row][col]

(* not cell_value *)
Falsy(v) ==
    \/ v.t = "none"
    \/ v.t \in {"num", "int"} /\ v.n = 0
    \/ v.t = "str" /\ v.s = <<>>

(* the first section type, in dict order, one of whose keywords is in the *)
(* text; "" when there is none                                            *)
MatchedSection(cell_text) ==
    LET hits == {i \in 1..Len(SectionKeywords) :
                    \E k \in 1..Len(SectionKeywords[i].keywords) :
                        ContainsText(cell_text, SectionKeywords[i].keywords[k])}
    IN  IF hits = {} THEN ""
        ELSE SectionKeywords[CHOOSE i \in hits : \A j \in hits : i <= j].section_type

(* the sections dict is a sequence of entries in insertion order; end_row *)
(* is <<>> for None                                                       *)
IndexOf(entries, name) ==
    IF \E i \in 1..Len(entries) : entries[i].name = name
    THEN CHOOSE i \in 1..Len(entries) : entries[i].name = name
    ELSE 0

(* sections[name] = (start_row, end_row): a key already present keeps its *)
(* place in the enumeration                                               *)
SetEntry(entries, name, start_row, end_row) ==
    IF IndexOf(entries, name) = 0
    THEN Append(entries, [name |-> name, start_row |-> start_row, end_row |-> end_row])
    ELSE [entries EXCEPT ![IndexOf(entries, name)] =
            [name |-> name, start_row |-> start_row, end_row |-> end_row]]

(* sections[current_section] = (sections[current_section][0], end_row) *)
CloseEntry(entries, name, end_row) ==
    SetEntry(entries, name, entries[IndexOf(entries, name)].start_row, <<end_row>>)

(* a match that ends the previous section at the matching row itself *)
StartSectionEndingAtRow(st, row, section_type) ==
    [entries |-> SetEntry(IF st.current_section # ""
                          THEN CloseEntry(st.entries, st.current_section, row)
                          ELSE st.entries,
                          section_type, row, <<>>),
     current_section |-> section_type]

(* a cell that matches section_type: end the previous section and start *)
(* the new one                                                          *)
StartSection(st, row, section_type) ==
    [entries |-> SetEntry(IF st.current_section # ""
                          THEN CloseEntry(st.entries, st.current_section, row - 1)
                          ELSE st.entries,
                          section_type, row, <<>>),
     current_section |-> section_type]

(* the body of the loops of detect_sections for one cell *)
StartIfMatched(st, row, section_type) ==
    IF section_type = "" THEN st ELSE StartSection(st, row, section_type)

DetectCell(st, row, value) ==
    IF Falsy(value) THEN st
    ELSE StartIfMatched(st, row, MatchedSection(Strip(Lower(PyStr(value)))))

(* the cells in row-major order, from the k-th on *)
RECURSIVE DetectFrom(_, _, _)
DetectFrom(ws, k, st) ==
    IF k > MaxRow(ws) * MaxColumn(ws) THEN st
    ELSE DetectFrom(ws, k + 1,
            DetectCell(st, ((k - 1) \div MaxColumn(ws)) + 1,
                       GetCellValueSafe(ws, ((k - 1) \div MaxColumn(ws)) + 1,
                                        ((k - 1) % MaxColumn(ws)) + 1)))

(* a scan that returns without closing the last section *)
LeftOpen(st, max_row) == st.entries

(* close the last section *)
CloseLast(st, max_row) ==
    IF st.current_section # ""
       /\ st.entries[IndexOf(st.entries, st.current_section)].end_row = <<>>
    THEN CloseEntry(st.entries, st.current_section, max_row)
    ELSE st.entries

DetectSections(ws) ==
    CloseLast(DetectFrom(ws, 1, [entries |-> <<>>, current_section |-> ""]), MaxRow(ws))

-----------------------------------------------------------------------------
(* Worksheets *)

Baqala == StrVal(Chars("Baqala (BQ)"))
NationalAccounts == StrVal(Chars("National Accounts (NA)"))
Total == StrVal(Chars("Total"))
RegionHeader == StrVal(Chars("Region"))
DaySaleHeader == StrVal(Chars("Day Sale"))
East == StrVal(Chars("East"))
Central == StrVal(Chars("Central"))

BlankRow == <<NoneVal, NoneVal>>
HeaderRow == <<RegionHeader, DaySaleHeader>>

(* rows of two cells: blank, a section title, two section titles side by *)
(* side, the column headers, and data rows                               *)
RowKinds ==
    {BlankRow, <<Baqala, NoneVal>>, <<NationalAccounts, NoneVal>>, <<Total, NoneVal>>,
     <<Baqala, NationalAccounts>>, HeaderRow, <<East, Sale1000>>, <<Central, Sale1050>>}

(* worksheets of at most MaxRows rows *)
SmallSheets == UNION {[1..k -> RowKinds] : k \in 1..MaxRows}

NotRaising == <<>>

-----------------------------------------------------------------------------
(* ExcelDataExtractor: cell values *)

(* str.replace('-', '') *)
RemoveDashes(s) == SelectSeq(s, LAMBDA c : c # "-")

(* _is_numeric: float() accepts the text without its commas and dashes *)
IsNumericText(value) == ParseFloat(RemoveDashes(RemoveCommas(value))).t = "num"

(* _parse_numeric: float() of the text without commas, the text itself    *)
(* when float() raises                                                    *)
ParseNumericOr(value, parsed_value) ==
    IF parsed_value.t = "num" THEN parsed_value ELSE StrVal(value)

ParseNumeric(value) == ParseNumericOr(value, ParseFloat(RemoveCommas(value)))

(* the percentage branch: f"{float(num_part)}%", str_value when float()   *)
(* raises                                                                 *)
PercentCell(str_value, number) ==
    IF number.t = "num" THEN StrVal(PercentText(number.n)) ELSE StrVal(str_value)

(* the parentheses branch: f"({self._parse_numeric(inner_value)})" *)
ParenCell(str_value, inner_value, number) ==
    IF ~IsNumericText(inner_value) THEN StrVal(str_value)
    ELSE IF number.t = "num" THEN StrVal(ParenText(number.n))
    ELSE StrVal(<<"(">> \o number.s \o <<")">>)

(* _get_processed_cell_value from str_value = str(raw_value).strip() on *)
ProcessText(str_value) ==
    IF str_value = <<>> THEN NoneVal
    ELSE IF IsNumericText(str_value) THEN ParseNumeric(str_value)
    ELSE IF EndsWith(str_value, "%")
    THEN PercentCell(str_value,
                     ParseFloat(RemoveCommas(SubSeq(str_value, 1, Len(str_value) - 1))))
    ELSE IF StartsWith(str_value, "(") /\ EndsWith(str_value, ")")
    THEN ParenCell(str_value, SubSeq(str_value, 2, Len(str_value) - 1),
                   ParseNumeric(SubSeq(str_value, 2, Len(str_value) - 1)))
    ELSE StrVal(str_value)

GetProcessedCellValue(raw_value) ==
    IF raw_value.t = "none" THEN NoneVal ELSE ProcessText(Strip(PyStr(raw_value)))

-----------------------------------------------------------------------------
(* Specification SpecCell: _get_processed_cell_value applied to one cell *)

(* what a worksheet cell may hold: nothing, a number, a text *)
RawCells == BasicVals \cup ShortVals \cup {StrVal(s) : s \in ExampleTexts \cup EncodedTexts}

(* the values _get_processed_cell_value produces from them *)
NormalizedCells == {GetProcessedCellValue(raw_value) : raw_value \in RawCells}

InitCell ==
    /\ pc = "cell_input"
    /\ precision = DefaultPrecision
    /\ severity_thresholds = DefaultThresholds
    /\ cell_raw \in RawCells \cup NormalizedCells
    /\ cell_value = NoneVal
    /\ ParseIdle
    /\ KeyIdle
    /\ CmpIdle
    /\ SevIdle
    /\ ReportIdle
    /\ CallIdle

get_processed_cell_value ==
    /\ pc = "cell_input"
    /\ cell_value' = GetProcessedCellValue(cell_raw)
    /\ pc' = "cell_done"
    /\ UNCHANGED <<cell_raw, parseVars, keyVars, configVars, cmpVars, sevVars, reportVars, callVars>>

NextCell == get_processed_cell_value

SpecCell == InitCell /\ [][NextCell]_vars

(* C18: a value already produced by _get_processed_cell_value (a number, *)
(* percent-tagged text, parenthesis-wrapped negative text, plain text or *)
(* null) is returned unchanged when it is normalized again.              *)
C18_NormalizationIdempotent ==
    (pc = "cell_done" /\ cell_raw \in NormalizedCells) => cell_value = cell_raw

(* a parenthesis-wrapped negative produced from a cell is normalized again *)
C18_Witness ==
    /\ pc = "cell_done"
    /\ cell_raw \in NormalizedCells
    /\ cell_raw.t = "str"
    /\ StartsWith(cell_raw.s, "(")
    /\ Len(cell_raw.s) > 2
    /\ IsNumericText(SubSeq(cell_raw.s, 2, Len(cell_raw.s) - 1))
    /\ cell_value = cell_raw

-----------------------------------------------------------------------------
(* ExcelDataExtractor: composite keys *)

(* row_data is a dict: a sequence of [field, value] items in insertion    *)
(* order, the values as _get_processed_cell_value returned them           *)
Item(field, value) == [field |-> field, value |-> value]

FieldHas(field, word) == Contains(Lower(Chars(field)), word)

NoParts == [region |-> <<>>, supervisor |-> <<>>, area |-> <<>>]

(* body of the loop over row_data.items() *)
KeyStep(parts, field, value) ==
    IF Falsy(value) THEN parts
    ELSE IF FieldHas(field, "region") THEN [parts EXCEPT !.region = Strip(PyStr(value))]
    ELSE IF FieldHas(field, "supervis")
    THEN [parts EXCEPT !.supervisor = Strip(PyStr(value))]
    ELSE IF FieldHas(field, "area") THEN [parts EXCEPT !.area = Strip(PyStr(value))]
    ELSE parts

RECURSIVE KeyParts(_, _, _)
KeyParts(items, k, parts) ==
    IF k > Len(items) THEN parts
    ELSE KeyParts(items, k + 1, KeyStep(parts, items[k].field, items[k].value))

(* "_".join(texts) *)
RECURSIVE JoinUnderscore(_)
JoinUnderscore(texts) ==
    IF texts = <<>> THEN <<>>
    ELSE IF Len(texts) = 1 THEN texts[1]
    ELSE texts[1] \o <<"_">> \o JoinUnderscore(Tail(texts))

(* str.replace(" ", "_") *)
SpacesToUnderscores(s) == [i \in 1..Len(s) |-> IF s[i] = " " THEN "_" ELSE s[i]]

JoinedKey(parts) ==
    SpacesToUnderscores(
        JoinUnderscore(SelectSeq(<<parts.region, parts.supervisor, parts.area>>,
                                 LAMBDA part : part # <<>>)))

(* repr(value), as str(dict) writes the values *)
Repr(v) == IF v.t = "str" THEN <<"'">> \o v.s \o <<"'">> ELSE PyStr(v)

(* str(row_data): {'Region': None, 'Day Sale': 1000.0} *)
RECURSIVE ItemsStr(_)
ItemsStr(items) ==
    IF items = <<>> THEN <<>>
    ELSE <<"'">> \o Chars(items[1].field) \o <<"'", ":", " ">> \o Repr(items[1].value)
         \o (IF Len(items) = 1 THEN <<>> ELSE <<",", " ">> \o ItemsStr(Tail(items)))

DictStr(items) == <<"{">> \o ItemsStr(items) \o <<"}">>

(* hash(text), as f"row_{...}" prints it: an integer that str.__hash__    *)
(* derives from the characters of the text and the interpreter's hash     *)
(* seed.  It is kept as the text it is derived from: equal for equal      *)
(* texts, different for different texts.                                   *)
HashStr(text) == Text(text)

CompositeKeyOr(joined, items) ==
    IF joined # <<>> THEN Text(joined) ELSE "row_" \o HashStr(DictStr(items))

CreateCompositeKey(items) == CompositeKeyOr(JoinedKey(KeyParts(items, 1, NoParts)), items)

-----------------------------------------------------------------------------
(* Specification SpecKey: _create_composite_key applied to two rows *)

Michael == StrVal(Chars("Michael"))
EastCoast == StrVal(Chars("East Coast"))

RowsOfValues ==
    {<<Item("Region", region), Item("Supervisor", supervisor),
       Item("Area", area), Item("Day Sale", sale)>> :
        region \in {NoneVal, Central, EastCoast}, supervisor \in {NoneVal, Michael},
        area \in {NoneVal, MGG}, sale \in {NoneVal, Sale1000, Sale1050}}

InitKey ==
    /\ pc = "key_input"
    /\ precision = DefaultPrecision
    /\ severity_thresholds = DefaultThresholds
    /\ row_data \in RowsOfValues \X RowsOfValues
    /\ composite_key = <<NoKey, NoKey>>
    /\ ParseIdle
    /\ CellIdle
    /\ CmpIdle
    /\ SevIdle
    /\ ReportIdle
    /\ CallIdle

(* one call of _create_composite_key, for a row that has no key yet *)
create_composite_key ==
    /\ pc = "key_input"
    /\ \E i \in 1..2 :
        /\ composite_key[i] = NoKey
        /\ composite_key' = [composite_key EXCEPT ![i] = CreateCompositeKey(row_data[i])]
        /\ pc' = IF composite_key[3 - i] = NoKey THEN "key_input" ELSE "keys_done"
    /\ UNCHANGED <<row_data, parseVars, cellVars, configVars, cmpVars, sevVars, reportVars, callVars>>

NextKey == create_composite_key

SpecKey == InitKey /\ [][NextKey]_vars

(* the items of the identifying fields: those whose name contains region, *)
(* supervis or area                                                       *)
Identifying(field) ==
    FieldHas(field, "region") \/ FieldHas(field, "supervis") \/ FieldHas(field, "area")

IdentifyingContent(items) == SelectSeq(items, LAMBDA item : Identifying(item.field))

KeysDone == pc = "keys_done"

(* C17: two rows with identical identifying-field content get the same   *)
(* composite key from _create_composite_key whatever their other field   *)
(* values are, also when every identifying field is empty.               *)
C17_SameIdentifyingContentSameKey ==
    (KeysDone /\ IdentifyingContent(row_data[1]) = IdentifyingContent(row_data[2]))
        => composite_key[1] = composite_key[2]

-----------------------------------------------------------------------------
(* ExcelStructureDetector: headers *)

HeaderKeywordList ==
    <<"region", "supervisor", "area", "wk slab", "day sale", "day slab",
      "day stale", "stale %", "wtd slab", "wtd sale", "wtd ach%",
      "wtd stale", "stale%", "wk sale ly", "wk grw%", "ytd ly", "ytd ty", "grw%">>

HeaderKeywords == {Chars(HeaderKeywordList[k]) : k \in 1..Len(HeaderKeywordList)}

HasHeaderKeyword(cell_text) ==
    \E header_keyword \in HeaderKeywords : ContainsText(cell_text, header_keyword)

(* header_candidates is a dict: [col, header] items in insertion order *)
ColumnIndex(candidates, col) ==
    IF \E i \in 1..Len(candidates) : candidates[i].col = col
    THEN CHOOSE i \in 1..Len(candidates) : candidates[i].col = col
    ELSE 0

PutHeader(candidates, col, header) ==
    IF ColumnIndex(candidates, col) = 0
    THEN Append(candidates, [col |-> col, header |-> header])
    ELSE [candidates EXCEPT ![ColumnIndex(candidates, col)].header = header]

(* first loop of detect_headers, for one cell: a cell with a header keyword *)
(* is kept for its column unless the column has a text at least as long     *)
KeywordHeader(candidates, col, value, at) ==
    IF Falsy(value) \/ ~HasHeaderKeyword(Strip(Lower(PyStr(value)))) THEN candidates
    ELSE IF at = 0 \/ Len(Strip(PyStr(value))) > Len(candidates[at].header)
    THEN PutHeader(candidates, col, Strip(PyStr(value)))
    ELSE candidates

IsAlpha(c) == c \in UpperLetters \/ c \in LowerLetters

(* str.isdigit() *)
IsDigitText(s) == s # <<>> /\ AllDigits(s)

WithoutPunctuation(s) == SelectSeq(s, LAMBDA c : c \notin {",", ".", "-", "(", ")", "%"})

LooksLikeHeader(cell_text) ==
    \/ ~IsDigitText(WithoutPunctuation(cell_text))
    \/ \E i \in 1..Len(cell_text) : cell_text[i] = "%"
    \/ \E i \in 1..Len(cell_text) : IsAlpha(cell_text[i])

(* second loop of detect_headers, for one cell *)
PatternHeader(candidates, col, value) ==
    IF ColumnIndex(candidates, col) # 0 THEN candidates
    ELSE IF Falsy(value) \/ Strip(PyStr(value)) = <<>> THEN candidates
    ELSE IF LooksLikeHeader(Strip(PyStr(value)))
    THEN PutHeader(candidates, col, Strip(PyStr(value)))
    ELSE candidates

(* the cells of rows start_row .. start_row + search_rows - 1, row by row; *)
(* k counts the cells visited                                              *)
RECURSIVE KeywordHeaders(_, _, _, _, _)
KeywordHeaders(ws, start_row, search_rows, k, candidates) ==
    IF k >= search_rows * MaxColumn(ws) THEN candidates
    ELSE KeywordHeaders(ws, start_row, search_rows, k + 1,
            KeywordHeader(candidates, (k % MaxColumn(ws)) + 1,
                          GetCellValueSafe(ws, start_row + (k \div MaxColumn(ws)),
                                           (k % MaxColumn(ws)) + 1),
                          ColumnIndex(candidates, (k % MaxColumn(ws)) + 1)))

RECURSIVE PatternHeaders(_, _, _, _, _)
PatternHeaders(ws, start_row, search_rows, k, candidates) ==
    IF k >= search_rows * MaxColumn(ws) THEN candidates
    ELSE PatternHeaders(ws, start_row, search_rows, k + 1,
            PatternHeader(candidates, (k % MaxColumn(ws)) + 1,
                          GetCellValueSafe(ws, start_row + (k \div MaxColumn(ws)),
                                           (k % MaxColumn(ws)) + 1)))

Min(a, b) == IF a < b THEN a ELSE b

SearchRows(start_row, end_row) == Min(5, end_row - start_row + 1)

DetectHeaders(ws, start_row, end_row) ==
    PatternHeaders(ws, start_row, SearchRows(start_row, end_row), 0,
        KeywordHeaders(ws, start_row, SearchRows(start_row, end_row), 0, <<>>))

-----------------------------------------------------------------------------
(* ExcelDataExtractor: rows *)

FieldIndex(items, field) ==
    IF \E i \in 1..Len(items) : items[i].field = field
    THEN CHOOSE i \in 1..Len(items) : items[i].field = field
    ELSE 0

(* row_data[field] = value *)
PutItem(items, field, value) ==
    IF FieldIndex(items, field) = 0 THEN Append(items, Item(field, value))
    ELSE [items EXCEPT ![FieldIndex(items, field)].value = value]

(* the loop over headers.items() in extract_data_rows *)
RECURSIVE RowData(_, _, _, _, _)
RowData(ws, row, headers, k, items) ==
    IF k > Len(headers) THEN items
    ELSE RowData(ws, row, headers, k + 1,
                 PutItem(items, Text(headers[k].header),
                         GetProcessedCellValue(GetCellValueSafe(ws, row, headers[k].col))))

HasMeaningfulData(items) ==
    \E i \in 1..Len(items) :
        items[i].value.t # "none" /\ Strip(PyStr(items[i].value)) # <<>>

KnownSupervisors == {Chars("michael"), Chars("sms"), Chars("mic"), Chars("s")}
KnownAreas == {Chars("mgg"), Chars("gmg"), Chars("mg"), Chars("m")}

(* _is_data_row: an identifying value that is recognised, or a number in *)
(* any field                                                             *)
IsDataRow(items) ==
    \/ \E i \in 1..Len(items) :
        /\ ~Falsy(items[i].value)
        /\ Strip(PyStr(items[i].value)) # <<>>
        /\ \/ /\ FieldHas(items[i].field, "region")
              /\ Contains(Lower(Strip(PyStr(items[i].value))), "central")
           \/ /\ ~FieldHas(items[i].field, "region")
              /\ FieldHas(items[i].field, "supervis")
              /\ Lower(Strip(PyStr(items[i].value))) \in KnownSupervisors
           \/ /\ ~FieldHas(items[i].field, "region")
              /\ ~FieldHas(items[i].field, "supervis")
              /\ FieldHas(items[i].field, "area")
              /\ Lower(Strip(PyStr(items[i].value))) \in KnownAreas
    \/ \E i \in 1..Len(items) : items[i].value.t \in {"num", "int"}

(* _clean_row_data on one value *)
CleanValue(v) == IF v.t = "str" THEN (IF Strip(v.s) = <<>> THEN NoneVal ELSE StrVal(Strip(v.s))) ELSE v

(* the cleaned record: the row's fields and its composite key *)
CleanRowData(items, key) ==
    [field \in {items[i].field : i \in 1..Len(items)} \cup {"composite_key"} |->
        IF field = "composite_key" THEN key
        ELSE CleanValue(items[FieldIndex(items, field)].value)]

RowRecords(items) ==
    IF HasMeaningfulData(items) /\ IsDataRow(items)
    THEN <<CleanRowData(items, CreateCompositeKey(items))>>
    ELSE <<>>

RECURSIVE ExtractDataRows(_, _, _, _)
ExtractDataRows(ws, start_row, end_row, headers) ==
    IF start_row > end_row THEN <<>>
    ELSE RowRecords(RowData(ws, start_row, headers, 1, <<>>))
         \o ExtractDataRows(ws, start_row + 1, end_row, headers)

-----------------------------------------------------------------------------
(* ExcelParser *)

(* an exception raised while a section is processed: raising names the   *)
(* section and the call that raises, NotRaising when no call does        *)
RaisePoints == {"detect_headers", "extract_data_rows"}

ExceptionText == "cannot read cell"

(* f"Error processing section '{section_name}': {str(e)}" *)
ErrorMessage(name) == "Error processing section '" \o name \o "': " \o ExceptionText

(* f"No headers detected for section '{section_name}'" *)
NoHeadersMessage(name) == "No headers detected for section '" \o name \o "'"

NothingParsed ==
    [sections |-> <<>>, headers |-> <<>>, total_records |-> 0, parsing_errors |-> <<>>]

(* the except branch: one message, and the section left without records; *)
(* everything parsed so far is dropped                                   *)
SectionFailedDroppingAll(out, name) ==
    [out EXCEPT !.parsing_errors = Append(@, ErrorMessage(name)),
                !.sections = <<[name |-> name, records |-> <<>>]>>]

(* the except branch: one message, and the section left without records *)
SectionFailed(out, name) ==
    [out EXCEPT !.parsing_errors = Append(@, ErrorMessage(name)),
                !.sections = Append(@, [name |-> name, records |-> <<>>])]

SectionExtracted(out, name, data_rows) ==
    [out EXCEPT !.sections = Append(@, [name |-> name, records |-> data_rows]),
                !.total_records = @ + Len(data_rows)]

(* a section without headers passed over without a message *)
NoHeadersSilent(out, name) == out

(* if not headers: one message, and on to the next section *)
NoHeaders(out, name) ==
    [out EXCEPT !.parsing_errors = Append(@, NoHeadersMessage(name))]

(* the try block after detect_headers has returned *)
WithHeaders(out, ws, entry, headers, fault) ==
    IF headers = <<>> THEN NoHeaders(out, entry.name)
    ELSE IF entry.start_row + 3 <= entry.end_row[1]
    THEN IF fault = <<entry.name, "extract_data_rows">>
         THEN SectionFailed(out, entry.name)
         ELSE SectionExtracted(out, entry.name,
                  ExtractDataRows(ws, entry.start_row + 3, entry.end_row[1], headers))
    ELSE [out EXCEPT !.sections = Append(@, [name |-> entry.name, records |-> <<>>])]

HeadersNoted(out, name, headers) ==
    [out EXCEPT !.headers = Append(@, [name |-> name, headers |-> headers])]

(* body of the loop over sections.items() *)
ProcessSection(out, ws, entry, headers, fault) ==
    IF fault = <<entry.name, "detect_headers">> THEN SectionFailed(out, entry.name)
    ELSE WithHeaders(HeadersNoted(out, entry.name, headers), ws, entry, headers, fault)

RECURSIVE ProcessSections(_, _, _, _, _)
ProcessSections(out, ws, entries, k, fault) ==
    IF k > Len(entries) THEN out
    ELSE ProcessSections(
            ProcessSection(out, ws, entries[k],
                           DetectHeaders(ws, entries[k].start_row, entries[k].end_row[1]),
                           fault),
            ws, entries, k + 1, fault)

ParseExcelFile(ws, fault) ==
    ProcessSections(NothingParsed, ws, DetectSections(ws), 1, fault)

-----------------------------------------------------------------------------
(* Specification SpecParse: detect_sections and parse_excel_file applied *)
(* to a worksheet                                                       *)

DataRows == {<<East, Sale1000>>, <<East, Sale1050>>, <<Central, Sale1050>>}

TitleRows ==
    {<<Baqala, NoneVal>>, <<NationalAccounts, NoneVal>>, <<Total, NoneVal>>,
     <<Baqala, NationalAccounts>>}

DataRowLists == UNION {[1..k -> DataRows] : k \in 0..MaxRecs}

(* a section as the reports lay it out: title, column headers, a spacer *)
(* row, the data rows                                                   *)
Block(title, data_rows) == <<title, HeaderRow, BlankRow>> \o data_rows

(* one or two blocks with at most MaxRecs data rows together *)
BlockSheets ==
    {Block(title, data_rows) : title \in TitleRows, data_rows \in DataRowLists}
    \cup {Block(q[1], q[2]) \o Block(q[3], q[4]) :
            q \in {r \in TitleRows \X DataRowLists \X TitleRows \X DataRowLists :
                      Len(r[2]) + Len(r[4]) <= MaxRecs}}

Faults ==
    {NotRaising}
    \cup {<<SectionKeywords[i].section_type, point>> :
            i \in 1..Len(SectionKeywords), point \in RaisePoints}

InitParse ==
    /\ pc = "parse_input"
    /\ precision = DefaultPrecision
    /\ severity_thresholds = DefaultThresholds
    /\ \/ worksheet \in SmallSheets /\ raising = NotRaising
       \/ worksheet \in BlockSheets /\ raising \in Faults
    /\ sections = <<>>
    /\ parsed = NoParsed
    /\ ScanIdle
    /\ CellIdle
    /\ KeyIdle
    /\ CmpIdle
    /\ SevIdle
    /\ ReportIdle
    /\ CallIdle

detect_sections ==
    /\ pc = "parse_input"
    /\ sections' = DetectSections(worksheet)
    /\ pc' = "sections_detected"
    /\ UNCHANGED <<worksheet, raising, parsed, scanVars, cellVars, keyVars,
                   configVars, cmpVars, sevVars, reportVars, callVars>>

parse_excel_file ==
    /\ pc = "parse_input"
    /\ sections' = DetectSections(worksheet)
    /\ parsed' = ParseExcelFile(worksheet, raising)
    /\ pc' = "parsed"
    /\ UNCHANGED <<worksheet, raising, scanVars, cellVars, keyVars,
                   configVars, cmpVars, sevVars, reportVars, callVars>>

NextParse == detect_sections \/ parse_excel_file

SpecParse == InitParse /\ [][NextParse]_vars

-----------------------------------------------------------------------------
(* Claims about detect_sections, checked under SpecParse *)

SectionsDetected == pc = "sections_detected"

Closed(entry) == entry.end_row # <<>>

RowsOf(entry) == IF Closed(entry) THEN entry.start_row .. entry.end_row[1] ELSE {}

PairwiseDisjoint(entries) ==
    \A i, j \in 1..Len(entries) : i < j => RowsOf(entries[i]) \cap RowsOf(entries[j]) = {}

OrderedByStartRow(entries) ==
    \A i, j \in 1..Len(entries) : i < j => entries[i].start_row <= entries[j].start_row

(* C15: for every grid the sections returned by detect_sections are      *)
(* pairwise disjoint row intervals and the returned mapping enumerates   *)
(* them in the order of their start_row, also when a section's keywords  *)
(* are matched again later in the grid.                                  *)
C15_SectionsDisjointAndOrdered ==
    SectionsDetected => PairwiseDisjoint(sections) /\ OrderedByStartRow(sections)

(* C16: every section returned by detect_sections is closed and has      *)
(* end_row >= start_row, also when two cells of one row match keywords   *)
(* of different sections.                                                *)
C16_SectionsClosedForward ==
    SectionsDetected =>
        \A i \in 1..Len(sections) :
            Closed(sections[i]) /\ sections[i].end_row[1] >= sections[i].start_row

-----------------------------------------------------------------------------
(* Claims about parse_excel_file, checked under SpecParse *)

Parsed == pc = "parsed"

(* the section whose processing is made to raise *)
FailingSection == raising[1]

(* the raising call is reached: detect_headers is called for every        *)
(* detected section, extract_data_rows for one that has headers and rows  *)
(* after the third                                                        *)
ReachedBy(entry) ==
    /\ entry.name = raising[1]
    /\ \/ raising[2] = "detect_headers"
       \/ /\ DetectHeaders(worksheet, entry.start_row, entry.end_row[1]) # <<>>
          /\ entry.start_row + 3 <= entry.end_row[1]

SectionRaised ==
    /\ raising # NotRaising
    /\ \E k \in 1..Len(sections) : ReachedBy(sections[k])

(* what parse_excel_file returns for the same worksheet when nothing raises *)
Undisturbed == ParseExcelFile(worksheet, NotRaising)

OfSection(entries, name) == SelectSeq(entries, LAMBDA entry : entry.name = name)
OfOthers(entries, name) == SelectSeq(entries, LAMBDA entry : entry.name # name)

About(messages, name) ==
    SelectSeq(messages, LAMBDA m : m \in {ErrorMessage(name), NoHeadersMessage(name)})
AboutOthers(messages, name) ==
    SelectSeq(messages, LAMBDA m : m \notin {ErrorMessage(name), NoHeadersMessage(name)})

Contained(result, baseline, name) ==
    /\ OfSection(result.sections, name) = <<[name |-> name, records |-> <<>>]>>
    /\ About(result.parsing_errors, name) = <<ErrorMessage(name)>>
    /\ result.total_records
         = SumOver({k \in 1..Len(baseline.sections) : baseline.sections[k].name # name},
                   [k \in 1..Len(baseline.sections) |-> Len(baseline.sections[k].records)])
    /\ OfOthers(result.sections, name) = OfOthers(baseline.sections, name)
    /\ AboutOthers(result.parsing_errors, name) = AboutOthers(baseline.parsing_errors, name)

(* C20: when the processing of one detected section raises, that section *)
(* is in the parsed document with no record and one error message,       *)
(* total_records counts nothing for it, and every other detected section *)
(* has the records it has when nothing raises.                           *)
C20_FailureContainedInSection ==
    (Parsed /\ SectionRaised) => Contained(parsed, Undisturbed, FailingSection)

(* the second of two sections raises in extract_data_rows; both have a   *)
(* record when nothing raises                                            *)
C20_Witness ==
    /\ Parsed
    /\ SectionRaised
    /\ raising[2] = "extract_data_rows"
    /\ Len(sections) = 2
    /\ sections[2].name = FailingSection
    /\ Len(Undisturbed.sections) = 2
    /\ \A k \in 1..2 : Len(Undisturbed.sections[k].records) = 1
    /\ parsed.total_records = 1
    /\ Len(parsed.sections) = 2
    /\ Len(parsed.sections[1].records) = 1
    /\ parsed.sections[2].records = <<>>

FaultOn(entry) == raising # NotRaising /\ raising[1] = entry.name

HeadersOf(entry) == DetectHeaders(worksheet, entry.start_row, entry.end_row[1])

(* detect_headers returns for the section, and returns no header *)
Headerless(entry) ==
    raising # <<entry.name, "detect_headers">> /\ HeadersOf(entry) = <<>>

(* the records of a section that has headers and whose processing does  *)
(* not raise                                                            *)
NormalRecords(entry) ==
    IF entry.start_row + 3 <= entry.end_row[1]
    THEN ExtractDataRows(worksheet, entry.start_row + 3, entry.end_row[1], HeadersOf(entry))
    ELSE <<>>

ParsedNormally(entry) ==
    OfSection(parsed.sections, entry.name)
        = <<[name |-> entry.name, records |-> NormalRecords(entry)]>>

RecordCount(entries) ==
    SumOver(1..Len(entries), [k \in 1..Len(entries) |-> Len(entries[k].records)])

Skipped(entry) ==
    /\ \A i \in 1..Len(parsed.sections) :
          parsed.sections[i].name = entry.name => parsed.sections[i].records = <<>>
    /\ parsed.total_records = RecordCount(OfOthers(parsed.sections, entry.name))
    /\ About(parsed.parsing_errors, entry.name) = <<NoHeadersMessage(entry.name)>>
    /\ \A j \in 1..Len(sections) :
          (~Headerless(sections[j]) /\ ~FaultOn(sections[j])) => ParsedNormally(sections[j])

(* C21: a detected section without detectable headers is skipped: it     *)
(* adds no record to the parsed document nor to total_records, exactly   *)
(* one parse-error message names it, and the other sections are parsed   *)
(* as usual.                                                             *)
C21_HeaderlessSectionSkipped ==
    Parsed => \A k \in 1..Len(sections) : Headerless(sections[k]) => Skipped(sections[k])

(* a section without headers next to a section that yields a record *)
C21_Witness ==
    /\ Parsed
    /\ raising = NotRaising
    /\ Len(sections) = 2
    /\ Headerless(sections[1])
    /\ ~Headerless(sections[2])
    /\ Skipped(sections[1])
    /\ Len(NormalRecords(sections[2])) > 0
    /\ parsed.total_records = Len(NormalRecords(sections[2]))

-----------------------------------------------------------------------------
(* Further claims about compare_reports, checked under Spec *)

NoSections(doc) == DOMAIN doc = {}

ExactlyOneEmpty == NoSections(source_data) # NoSections(dest_data)

IsSectionResult(r) == r.section = "STRUCTURAL" /\ r.field = "ENTIRE_SECTION"
IsCountResult(r) == r.field = "RECORD_COUNT"
IsCalculationResult(r) == r.key = "TOTAL_CALCULATION" /\ r.section = "CALCULATION"
IsRecordResult(r) == ~IsSectionResult(r) /\ ~IsCountResult(r) /\ ~IsCalculationResult(r)

(* compare_reports has a result for the documents: a list of results and *)
(* a list of validations                                                 *)
Returned(out) ==
    /\ IsABag(out.comparison_results)
    /\ DOMAIN out.calculation_validations = 1..Len(out.calculation_validations)

ReturnsResults ==
    Returned(CompareReports(source_data, dest_data, precision, severity_thresholds,
                            enable_structure_validation, enable_calculation_validation))

(* C22: compare_reports returns for every pair of parsed documents; when *)
(* exactly one document has no section it returns one SECTION_<name>     *)
(* result per section of the other document (structural validation       *)
(* enabled), no record-count result and no per-record result.            *)
C22_OneEmptyDocumentIsData ==
    /\ pc = "rep_input" => ReturnsResults
    /\ (Compared /\ ExactlyOneEmpty) =>
         /\ enable_structure_validation =>
               /\ \A name \in DOMAIN source_data \cup DOMAIN dest_data :
                     Results(LAMBDA r : IsSectionResult(r) /\ r.key = "SECTION_" \o name) = 1
               /\ Results(IsSectionResult)
                     = Cardinality(DOMAIN source_data \cup DOMAIN dest_data)
         /\ Results(IsCountResult) = 0
         /\ Results(IsRecordResult) = 0

(* the source has no section, the destination two, one of them with records *)
C22_Witness ==
    /\ pc = "rep_compared"
    /\ enable_structure_validation
    /\ NoSections(source_data)
    /\ DOMAIN dest_data = {"BQ", "COMBINED"}
    /\ Len(dest_data["BQ"]) > 0
    /\ Results(IsSectionResult) = 2
    /\ Results(LAMBDA r : TRUE) = 2

-----------------------------------------------------------------------------
(* Specification SpecCall: the endpoints that run a comparison.  A call    *)
(* names the endpoint, the export format and the report files found;      *)
(* source_data and dest_data are what parse_excel_file returns for the    *)
(* two files.                                                             *)

Endpoints == {"validate_report", "export_validation_results"}
ExportFormats == {"excel", "json", "csv"}
Formats == ExportFormats \cup {"xml"}
BothFiles == {"source", "dest"}

Requests ==
    {[endpoint |-> "validate_report", format |-> "", found |-> found] :
        found \in SUBSET BothFiles}
    \cup {[endpoint |-> "export_validation_results", format |-> format, found |-> found] :
            format \in Formats, found \in SUBSET BothFiles}

(* raise HTTPException(status_code=...) *)
HTTPException(status_code) ==
    [status_code |-> status_code, body |-> "HTTPException", artifact |-> ""]

ValidationResponse ==
    [status_code |-> 200, body |-> "ValidationResponse", artifact |-> ""]

(* the export file written in the given format, and returned *)
FileResponse(format) == [status_code |-> 200, body |-> "FileResponse", artifact |-> format]

InitCall ==
    /\ pc = "call_input"
    /\ precision = DefaultPrecision
    /\ severity_thresholds = DefaultThresholds
    /\ enable_structure_validation = TRUE
    /\ enable_calculation_validation = TRUE
    /\ request \in Requests
    /\ IF request.found = BothFiles
       THEN \E p \in PlainDocs \X PlainDocs : source_data = p[1] /\ dest_data = p[2]
       ELSE source_data = <<>> /\ dest_data = <<>>
    /\ response = NoResponse
    /\ comparison_results = EmptyBag
    /\ calculation_validations = <<>>
    /\ summary = NoSummary
    /\ CmpIdle
    /\ SevIdle
    /\ ParserIdle

(* the call ends with an HTTPException before any comparison *)
Refused(status_code) ==
    /\ response' = HTTPException(status_code)
    /\ UNCHANGED <<comparison_results, calculation_validations, summary>>

(* compare_reports, then generate_summary on what it returned *)
ComparedAndSummarised(out) ==
    /\ comparison_results' = out.comparison_results
    /\ calculation_validations' = out.calculation_validations
    /\ summary' = GenerateSummary(out.comparison_results, out.calculation_validations)

RunComparison ==
    ComparedAndSummarised(
        CompareReports(source_data, dest_data, precision, severity_thresholds,
                       enable_structure_validation, enable_calculation_validation))

(* POST /{report_name}; the processing time may have exceeded the limit *)
(* when the comparison is about to start                                 *)
validate_report ==
    /\ pc = "call_input"
    /\ request.endpoint = "validate_report"
    /\ \/ /\ request.found # BothFiles
          /\ Refused(404)
       \/ /\ request.found = BothFiles
          /\ DOMAIN source_data = {} \/ DOMAIN dest_data = {}
          /\ Refused(422)
       \/ /\ request.found = BothFiles
          /\ DOMAIN source_data # {} /\ DOMAIN dest_data # {}
          /\ Refused(408)
       \/ /\ request.found = BothFiles
          /\ DOMAIN source_data # {} /\ DOMAIN dest_data # {}
          /\ RunComparison
          /\ response' = ValidationResponse
    /\ pc' = "call_done"
    /\ UNCHANGED <<request, source_data, dest_data, configVars, cmpVars, sevVars, parserVars>>

(* POST /{report_name}/export *)
export_validation_results ==
    /\ pc = "call_input"
    /\ request.endpoint = "export_validation_results"
    /\ \/ /\ request.format \notin ExportFormats
          /\ Refused(400)
       \/ /\ request.format \in ExportFormats
          /\ request.found # BothFiles
          /\ Refused(404)
       \/ /\ request.format \in ExportFormats
          /\ request.found = BothFiles
          /\ RunComparison
          /\ response' = FileResponse(request.format)
    /\ pc' = "call_done"
    /\ UNCHANGED <<request, source_data, dest_data, configVars, cmpVars, sevVars, parserVars>>

NextCall == validate_report \/ export_validation_results

SpecCall == InitCall /\ [][NextCall]_vars

CallDone == pc = "call_done"

BothUnparsed ==
    request.found = BothFiles /\ NoSections(source_data) /\ NoSections(dest_data)

-----------------------------------------------------------------------------
(* Specification SpecScan: detect_sections one cell at a time.  sections  *)
(* is the dict being built, current_section the local of that name, and   *)
(* scanned the number of cells the two loops have visited.                *)

CellCount(ws) == MaxRow(ws) * MaxColumn(ws)

(* the row and column of the cell visited next *)
ScanRow == (scanned \div MaxColumn(worksheet)) + 1
ScanCol == (scanned % MaxColumn(worksheet)) + 1

ScanValue == GetCellValueSafe(worksheet, ScanRow, ScanCol)

(* the section type the cell visited next matches, "" when it matches none *)
ScanMatch ==
    IF Falsy(ScanValue) THEN "" ELSE MatchedSection(Strip(Lower(PyStr(ScanValue))))

InitScan ==
    /\ pc = "scan"
    /\ precision = DefaultPrecision
    /\ severity_thresholds = DefaultThresholds
    /\ worksheet \in SmallSheets
    /\ raising = NotRaising
    /\ sections = <<>>
    /\ parsed = NoParsed
    /\ ScanIdle
    /\ CellIdle
    /\ KeyIdle
    /\ CmpIdle
    /\ SevIdle
    /\ ReportIdle
    /\ CallIdle

ScanFrame ==
    UNCHANGED <<worksheet, raising, parsed, cellVars, keyVars,
                configVars, cmpVars, sevVars, reportVars, callVars>>

(* an empty cell, or a text with no section keyword: continue *)
scan_next_cell ==
    /\ pc = "scan"
    /\ scanned < CellCount(worksheet)
    /\ ScanMatch = ""
    /\ scanned' = scanned + 1
    /\ UNCHANGED <<pc, sections, current_section>>
    /\ ScanFrame

(* a keyword matched: end the previous section *)
end_previous_section ==
    /\ pc = "scan"
    /\ scanned < CellCount(worksheet)
    /\ ScanMatch # ""
    /\ sections' = IF current_section # ""
                   THEN CloseEntry(sections, current_section, ScanRow - 1)
                   ELSE sections
    /\ pc' = "start_section"
    /\ UNCHANGED <<scanned, current_section>>
    /\ ScanFrame

(* start the new section, and break out of the keyword loop *)
start_new_section ==
    /\ pc = "start_section"
    /\ current_section' = ScanMatch
    /\ sections' = SetEntry(sections, ScanMatch, ScanRow, <<>>)
    /\ scanned' = scanned + 1
    /\ pc' = "scan"
    /\ ScanFrame

(* after the loops: close the last section and return *)
close_last_section ==
    /\ pc = "scan"
    /\ scanned = CellCount(worksheet)
    /\ sections' = CloseLast([entries |-> sections, current_section |-> current_section],
                             MaxRow(worksheet))
    /\ pc' = "scan_returned"
    /\ UNCHANGED <<scanned, current_section>>
    /\ ScanFrame

NextScan ==
    scan_next_cell \/ end_previous_section \/ start_new_section \/ close_last_section

SpecScan == InitScan /\ [][NextScan]_vars

ScanReturned == pc = "scan_returned"

(* the cell-by-cell scan returns what DetectSections computes *)
ScanAgrees == ScanReturned => sections = DetectSections(worksheet)

(* the sections that have no end row *)
OpenSections(entries) == {i \in 1..Len(entries) : entries[i].end_row = <<>>}

AtMostOneOpen ==
    /\ Cardinality(OpenSections(sections)) <= 1
    /\ \A i \in OpenSections(sections) : sections[i].name = current_section

(* the step that ends the previous section gives it end = row - 1 *)
EndsPrevious ==
    (pc = "scan" /\ pc' = "start_section" /\ current_section # "") =>
        /\ OpenSections(sections) = {IndexOf(sections, current_section)}
        /\ OpenSections(sections') = {}
        /\ sections'[IndexOf(sections, current_section)].end_row = <<ScanRow - 1>>
        /\ sections'[IndexOf(sections, current_section)].start_row
              = sections[IndexOf(sections, current_section)].start_row

(* the step that starts the matched section gives it start = row, open *)
StartsMatched ==
    (pc = "start_section" /\ pc' = "scan") =>
        /\ current_section' = ScanMatch
        /\ OpenSections(sections') = {IndexOf(sections', ScanMatch)}
        /\ sections'[IndexOf(sections', ScanMatch)].start_row = ScanRow

ClosedOnReturn ==
    ScanReturned =>
        /\ OpenSections(sections) = {}
        /\ current_section # "" =>
              sections[IndexOf(sections, current_section)].end_row = <<MaxRow(worksheet)>>

(* C24: during the row-major scan of detect_sections at most one section *)
(* is open at any step; a keyword match closes the open section with     *)
(* end = row - 1 and opens the matched one with start = row; on return   *)
(* no section is open and the one open last ends at the final row.       *)
C24_OneOpenSectionDuringScan ==
    /\ [](AtMostOneOpen /\ ClosedOnReturn)
    /\ [][EndsPrevious /\ StartsMatched]_vars

(* a scan that closed one section on a match and the last one on return *)
C24_Witness ==
    /\ ScanReturned
    /\ Len(sections) >= 2
    /\ current_section # ""
    /\ \E i \in 1..Len(sections) :
          /\ sections[i].name # current_section
          /\ sections[i].end_row # <<MaxRow(worksheet)>>

-----------------------------------------------------------------------------
(* Severity over the whole output of compare_reports, checked under Spec *)

SeverityAsDetermined(r) ==
    r.severity = DetermineSeverity(r.status, r.difference, severity_thresholds)

MissingIsHigh(r) ==
    r.status \in {"MISSING_IN_SOURCE", "MISSING_IN_DEST"} => r.severity = "HIGH"

CalculationErrorIsCritical(r) ==
    r.status = "CALCULATION_ERROR" => r.severity = "CRITICAL"

(* C25: every result compare_reports returns carries the severity that *)
(* determine_severity assigns to its status and difference; a result   *)
(* with status MISSING_IN_SOURCE or MISSING_IN_DEST is HIGH and a      *)
(* CALCULATION_ERROR is CRITICAL.                                      *)
C25_SeverityUniform ==
    Compared =>
        \A r \in BagToSet(comparison_results) :
            /\ SeverityAsDetermined(r)
            /\ MissingIsHigh(r)
            /\ CalculationErrorIsCritical(r)

-----------------------------------------------------------------------------
(* Records of one section with the same composite key, checked under Spec *)

(* the records followed, in their section, by a record of the same key *)
Shadowed(section_records) ==
    {i \in 1..Len(section_records) :
        \E j \in (i + 1)..Len(section_records) :
            KeyAt(section_records, j) = KeyAt(section_records, i)}

RECURSIVE Without(_, _, _)
Without(section_records, dropped, i) ==
    IF i > Len(section_records) THEN <<>>
    ELSE (IF i \in dropped THEN <<>> ELSE <<section_records[i]>>)
         \o Without(section_records, dropped, i + 1)

(* the section with only the last record of every key *)
LastOfEachKey(section_records) == Without(section_records, Shadowed(section_records), 1)

HasCollision(section) ==
    /\ section \in CommonSections
    /\ Shadowed(source_data[section]) \cup Shadowed(dest_data[section]) # {}

(* the per-record results of the section are those of the two sections *)
(* with the shadowed records taken out                                 *)
ShadowedLeaveNoTrace(section) ==
    LET expected == CompareSection(LastOfEachKey(source_data[section]),
                                   LastOfEachKey(dest_data[section]),
                                   section, precision, severity_thresholds)
    IN  \A r \in BagToSet(comparison_results) \cup BagToSet(expected) :
            (IsRecordResult(r) /\ r.section = section) =>
                CopiesIn(r, comparison_results) = CopiesIn(r, expected)

(* the record counts are those of the lists, shadowed records included *)
CountsBoth(section) ==
    (enable_structure_validation
        /\ Len(source_data[section]) # Len(dest_data[section])) =>
        Results(LAMBDA r : /\ IsCountResult(r)
                           /\ r.section = section
                           /\ r.source_value = IntVal(Len(source_data[section]))
                           /\ r.dest_value = IntVal(Len(dest_data[section]))) = 1

(* C26: when two records of a section of one document have the same     *)
(* composite key, only the last of them is compared with the other      *)
(* document and no result tells of the collision or of the shadowed     *)
(* record, while validate_record_counts counts both records.            *)
C26_CollidingKeysMergeSilently ==
    pc = "rep_compared" =>
        \A section \in SectionNames :
            HasCollision(section) => ShadowedLeaveNoTrace(section) /\ CountsBoth(section)

(* the source holds K1 twice with different Day Sale, the destination  *)
(* once with the later value: a count result and no per-record result  *)
C26_Witness ==
    /\ pc = "rep_compared"
    /\ enable_structure_validation
    /\ HasCollision("BQ")
    /\ Len(source_data["BQ"]) = 2
    /\ Len(dest_data["BQ"]) = 1
    /\ source_data["BQ"][1] # source_data["BQ"][2]
    /\ dest_data["BQ"][1] = source_data["BQ"][2]
    /\ Results(LAMBDA r : IsCountResult(r) /\ r.section = "BQ") = 1
    /\ Results(LAMBDA r : IsRecordResult(r) /\ r.section = "BQ") = 0

-----------------------------------------------------------------------------
(* Calculation validation and the source document.  Specification     *)
(* SpecCalc runs compare_reports and generate_summary on a source with *)
(* right or wrong totals, or none, and any plain or two-field          *)
(* destination.                                                        *)

(* the documents put in the place of the source *)
OtherSources == TwoFieldDocs \cup {<<>>}

InitCalc ==
    /\ pc = "rep_input"
    /\ precision = DefaultPrecision
    /\ severity_thresholds = DefaultThresholds
    /\ enable_structure_validation \in BOOLEAN
    /\ enable_calculation_validation \in BOOLEAN
    /\ source_data \in OtherSources
    /\ dest_data \in PlainDocs \cup TwoFieldDocs
    /\ comparison_results = EmptyBag
    /\ calculation_validations = <<>>
    /\ summary = NoSummary
    /\ CmpIdle
    /\ SevIdle
    /\ ParserIdle
    /\ CallIdle

SpecCalc == InitCalc /\ [][Next]_vars

(* the two outputs have the same TOTAL_CALCULATION results *)
SameCalculationResults(results, other_results) ==
    \A r \in BagToSet(results) \cup BagToSet(other_results) :
        IsCalculationResult(r) => CopiesIn(r, results) = CopiesIn(r, other_results)

SameCalculationOutput(out) ==
    /\ out.calculation_validations = calculation_validations
    /\ SameCalculationResults(comparison_results, out.comparison_results)

(* validate_totals would find an error in the document *)
Inconsistent(doc) ==
    \E i \in 1..Len(ValidateTotals(doc, precision)) :
        ValidateTotals(doc, precision)[i].status = "CALCULATION_ERROR"

(* C27: for a fixed destination and configuration the CalculationValidation *)
(* list and the TOTAL_CALCULATION results of compare_reports are the same   *)
(* for every source document: an inconsistency of the source alone is not   *)
(* reported.                                                                *)
C27_CalculationIgnoresSource ==
    Compared =>
        \A other \in OtherSources :
            SameCalculationOutput(
                CompareReports(other, dest_data, precision, severity_thresholds,
                               enable_structure_validation, enable_calculation_validation))

(* the totals of the source do not add up, those of the destination do, *)
(* and no calculation error is returned                                 *)
C27_Witness ==
    /\ pc = "rep_compared"
    /\ enable_calculation_validation
    /\ Inconsistent(source_data)
    /\ ~Inconsistent(dest_data)
    /\ Len(calculation_validations) > 0
    /\ Results(IsCalculationResult) = 0

-----------------------------------------------------------------------------
(* Rows holding a section keyword, checked under SpecParse *)

(* the lower-cased text of the value contains a section keyword *)
HasSectionKeyword(value) ==
    /\ ~Falsy(value)
    /\ \E i \in 1..Len(SectionKeywords) :
          \E k \in 1..Len(SectionKeywords[i].keywords) :
              ContainsText(Lower(PyStr(value)), SectionKeywords[i].keywords[k])

KeywordRow(ws, row) ==
    \E col \in 1..MaxColumn(ws) : HasSectionKeyword(GetCellValueSafe(ws, row, col))

(* the rows of a section after its first *)
RowsBelowStart(entry) == (entry.start_row + 1)..entry.end_row[1]

NoKeywordBelowStart ==
    \A i \in 1..Len(sections) :
        \A row \in RowsBelowStart(sections[i]) : ~KeywordRow(worksheet, row)

(* no record holds a value with a section keyword in it *)
NoKeywordInRecords ==
    \A k \in 1..Len(parsed.sections) :
        \A i \in 1..Len(parsed.sections[k].records) :
            \A field \in DOMAIN parsed.sections[k].records[i] \ {"composite_key"} :
                ~HasSectionKeyword(parsed.sections[k].records[i][field])

(* C28: in every section detect_sections returns, no row after the start *)
(* row up to the end row holds a non-empty cell whose lower-cased text   *)
(* contains a section keyword; hence parse extracts no record from a row *)
(* holding such a cell, for example a Region value 'Central'.            *)
C28_NoKeywordRowInsideSection ==
    /\ (SectionsDetected \/ Parsed) => NoKeywordBelowStart
    /\ Parsed => NoKeywordInRecords

(* a sheet with a data row whose Region is Central below a data row that *)
(* was extracted: the Central row starts a section and gives no record   *)
C28_Witness ==
    /\ Parsed
    /\ raising = NotRaising
    /\ parsed.total_records > 0
    /\ \E row \in 4..MaxRow(worksheet) :
          /\ worksheet[row][1] = Central
          /\ \E i \in 1..Len(sections) : sections[i].start_row = row

-----------------------------------------------------------------------------
(* The sections of the parsed document, checked under SpecParse *)

NamesOf(entries) == {entries[i].name : i \in 1..Len(entries)}

RECURSIVE SumOfLengths(_, _)
SumOfLengths(parsed_sections, k) ==
    IF k > Len(parsed_sections) THEN 0
    ELSE Len(parsed_sections[k].records) + SumOfLengths(parsed_sections, k + 1)

(* C29: after parse_excel_file the key set of sections equals the set of *)
(* detected section names, which is also the key set of headers,         *)
(* whichever degradation a section went through, and total_records is    *)
(* the sum of the lengths of the sections' record lists.                 *)
C29_SectionsAreTheDetectedOnes ==
    Parsed =>
        /\ NamesOf(parsed.sections) = NamesOf(sections)
        /\ NamesOf(parsed.headers) = NamesOf(sections)
        /\ parsed.total_records = SumOfLengths(parsed.sections, 1)

-----------------------------------------------------------------------------
(* A document compared with itself, checked under Spec *)

UniqueKeys(doc) ==
    \A section \in DOMAIN doc :
        \A i, j \in 1..Len(doc[section]) :
            KeyAt(doc[section], i) = KeyAt(doc[section], j) => i = j

SelfComparison == source_data = dest_data /\ UniqueKeys(source_data)

(* C30: for a document d with unique composite keys per section,        *)
(* compare_reports(d, d) returns no structural result and no per-record *)
(* result: the only results it can hold are TOTAL_CALCULATION entries.  *)
C30_SelfComparisonClean ==
    (Compared /\ SelfComparison) =>
        /\ Results(IsSectionResult) = 0
        /\ Results(IsCountResult) = 0
        /\ Results(IsRecordResult) = 0

=============================================================================
